---- MODULE Spec2Model ----
(***************************************************************************)
(* A model of the job-application autofill extension:                      *)
(*   - the Fill Executor (content/autofillRunner.ts, runAutofill) with the  *)
(*     fill strategies of content/actions/autofillActions.ts;              *)
(*   - the Resolution Engine (content/scanner/formScanner.ts,              *)
(*     QuestionMapper) with the Pattern Store (core/storage/               *)
(*     patternStorage.ts).                                                 *)
(* Strings are TLA+ strings; the JavaScript string functions the code      *)
(* uses (toLowerCase, trim, includes, startsWith, split) are defined on    *)
(* them character by character.                                            *)
(***************************************************************************)
EXTENDS Integers, Sequences, FiniteSets, TLC

(***************************************************************************)
(* JavaScript string functions                                             *)
(***************************************************************************)

\* String.prototype.toLowerCase on one character.
LowerChar(c) ==
    CASE c = "A" -> "a" [] c = "B" -> "b" [] c = "C" -> "c" [] c = "D" -> "d"
      [] c = "E" -> "e" [] c = "F" -> "f" [] c = "G" -> "g" [] c = "H" -> "h"
      [] c = "I" -> "i" [] c = "J" -> "j" [] c = "K" -> "k" [] c = "L" -> "l"
      [] c = "M" -> "m" [] c = "N" -> "n" [] c = "O" -> "o" [] c = "P" -> "p"
      [] c = "Q" -> "q" [] c = "R" -> "r" [] c = "S" -> "s" [] c = "T" -> "t"
      [] c = "U" -> "u" [] c = "V" -> "v" [] c = "W" -> "w" [] c = "X" -> "x"
      [] c = "Y" -> "y" [] c = "Z" -> "z" [] OTHER -> c

RECURSIVE toLowerCase(_)
toLowerCase(s) ==
    IF s = "" THEN ""
    ELSE LowerChar(SubSeq(s, 1, 1)) \o toLowerCase(SubSeq(s, 2, Len(s)))

\* String.prototype.includes
includes(s, t) ==
    \E i \in 1..(Len(s) - Len(t) + 1) : SubSeq(s, i, i + Len(t) - 1) = t

\* String.prototype.startsWith
startsWith(s, t) ==
    Len(t) <= Len(s) /\ SubSeq(s, 1, Len(t)) = t

RECURSIVE trimStart(_)
trimStart(s) ==
    IF s # "" /\ SubSeq(s, 1, 1) = " " THEN trimStart(SubSeq(s, 2, Len(s))) ELSE s

RECURSIVE trimEnd(_)
trimEnd(s) ==
    IF s # "" /\ SubSeq(s, Len(s), Len(s)) = " "
    THEN trimEnd(SubSeq(s, 1, Len(s) - 1)) ELSE s

\* String.prototype.trim
trim(s) == trimEnd(trimStart(s))

\* s.replace(/\s+/g, " "): every run of blanks becomes one blank.
RECURSIVE collapseSpaces(_)
collapseSpaces(s) ==
    IF Len(s) < 2 THEN s
    ELSE IF SubSeq(s, 1, 1) = " " /\ SubSeq(s, 2, 2) = " "
         THEN collapseSpaces(SubSeq(s, 2, Len(s)))
         ELSE SubSeq(s, 1, 1) \o collapseSpaces(SubSeq(s, 2, Len(s)))

\* autofillActions.ts normalizeText
normalizeText(text) == collapseSpaces(trim(toLowerCase(text)))

(***************************************************************************)
(* The Fill Executor                                                       *)
(***************************************************************************)

\* Bound: the number of fields of one payload.
MaxFields == 2

\* The content-script runs that START_AUTOFILL_EVENTs can start.
Runs == {1, 2}

\* The form controls of the page and the absent match.
Elems == {"e1", "e2"}
NoMatch == "null"

\* The label texts of a radio group / the option texts of a native select.
Labels == <<"Yes", "No">>

\* A label no control offers (the strategy found nothing to aim at).
NoLabel == "<none>"

\* ResolvedField.fieldType as the scan service sends it.
SeleniumTypes ==
    {"TEXT", "TEXTAREA", "EMAIL", "PHONE", "NUMBER", "DATE", "RADIO", "CHECKBOX",
     "SELECT_NATIVE", "DROPDOWN_CUSTOM", "FILE"}

\* The values of the resolved fields: for a FILE field a data URL (well formed,
\* malformed) or no data at all, for the other types an answer text.
FileValues == {"data:a/b;base64,QQ", "data:a/b", "cv"}
TextValues == {"yes ", "Maybe"}

\* The question texts of the payload's fields.
QuestionTexts == {"q1", "q2"}

VARIABLES
    live,        \* the runs that events can start in this behaviour
    page,        \* the form controls the page holds
    kinds,       \* the field types the payloads of this behaviour use
    payload,     \* payload[r].fields: the question texts of the fields, in order
    pc,          \* where run r is in runAutofill
    idx,         \* the position of the for loop of run r in payload.fields
    rf,          \* the field the loop of run r is at, its match and its strategy
    results,     \* results[r]: the itemized result list of run r
    successes,
    failures,
    completed,   \* the detail of the AUTOFILL_COMPLETE_EVENT of run r, if dispatched
    dom,         \* dom[e]: the state of control e (value / checked label / file)
    inflight,    \* FIELD_FILL_FAILED messages sent and not yet settled
    reports,     \* every FIELD_FILL_FAILED message sent, in sending order
    delivered,   \* the messages the background worker received
    last         \* what the last strategy of run r did (for the properties)

fillVars ==
    <<live, page, kinds, payload, pc, idx, rf, results, successes, failures, completed,
      dom, inflight, reports, delivered, last>>

VARIABLES
    profile,         \* chrome.storage.local "profile": <<>> when none is stored
    learnedPatterns, \* chrome.storage.local "learnedPatterns": the Pattern Store
    questions,       \* the ScannedQuestions handed to processQuestions
    qpc,             \* where processQuestions is
    qi,              \* the position of the phase 1 loop in questions
    mappedAnswers,   \* the answers emitted so far
    unmappedForAI,   \* the questions queued for the AI oracle
    aiResults,       \* the promise of each queued question: pending, null or answer
    aiAnswers,       \* the non-null results, once Promise.all has resolved
    li,              \* the position of the learning loop
    observations     \* every (question, answer) handed to learnFromAIResponse

resolveVars ==
    <<profile, learnedPatterns, questions, qpc, qi, mappedAnswers, unmappedForAI,
      aiResults, aiAnswers, li, observations>>

VARIABLES
    callers,         \* callers[c]: where caller c of the PatternStorage is, and its locals
    nextId           \* stands for Date.now() and Math.random() in the id of a new pattern

storeVars == <<callers, nextId>>

VARIABLES
    scan,            \* FormScanner.scan: the fields found, the loop and its questions
    debugger,        \* debugger[t]: the request whose attach holds the session on tab t
    trusted          \* trusted[q]: trustedClick / trustedType request q of the worker

VARIABLES
    scanCache,       \* scanCache of the worker: per URL <<>> or one <<[data, timestamp]>>
    now,             \* Date.now(), in minutes
    scans            \* scans[r]: scanApplication request r of the worker

cacheVars == <<scanCache, now, scans>>

VARIABLES
    typing           \* typeLikeHuman: the element, the value and where the call is

VARIABLES
    matching         \* a call of one of the option matchers: its arguments and result

VARIABLES
    dropdown,        \* a call of extractCustomOptions on a custom dropdown widget
    document         \* the popup elements the page shows

dropdownVars == <<dropdown, document>>

VARIABLES
    server           \* the pattern-exchange server: its patterns file and last request

otherVars == <<cacheVars, typing, matching, dropdownVars, server>>

restVars == <<scan, debugger, trusted, otherVars>>

vars == <<fillVars, resolveVars, storeVars, restVars>>

\* The Resolution Engine before processQuestions is called.
InitResolve(profiles, stores, lists) ==
    /\ profile \in profiles
    /\ learnedPatterns \in stores
    /\ questions \in lists
    /\ qpc = "idle"
    /\ qi = 1
    /\ mappedAnswers = <<>>
    /\ unmappedForAI = <<>>
    /\ aiResults = <<>>
    /\ aiAnswers = <<>>
    /\ li = 1
    /\ observations = <<>>

\* A caller of the PatternStorage between two calls.
Idle == [pc |-> "idle", patterns |-> <<>>, arg |-> <<>>, patternId |-> 0, calls |-> 0]

\* The PatternStorage with the callers cs, none of them in a call.
InitStore(cs) ==
    /\ callers = [c \in cs |-> Idle]
    /\ nextId = 1

\* FormScanner.scan (formScanner.ts l.33-48) after findAllFormFields: the loop
\* is at the first of the fields found.
InitScan(fieldLists) ==
    \E fields \in fieldLists :
        scan = [pc |-> "loop", fields |-> fields, i |-> 1, questions |-> <<>>,
                result |-> <<>>]

\* The tabs a trusted-input request can come from.
Tabs == {1, 2}

\* The background worker with the trusted-input requests it will receive; no
\* debugger session is attached.
InitTrusted(requests) ==
    /\ debugger = [t \in Tabs |-> 0]
    /\ trusted \in requests

\* The URLs a scan can be requested for.
Urls == {"u1", "u2"}

\* The background worker with an empty scanCache (part_000 l.368) and the
\* scanApplication requests it will receive.
InitCache(requests) ==
    /\ scanCache = [u \in Urls |-> <<>>]
    /\ now = 0
    /\ scans \in requests

\* No call of typeLikeHuman.
NoTyping ==
    [pc |-> "idle", value |-> "", element |-> "", tab |-> 0, response |-> "none",
     simulated |-> 0, result |-> <<>>]

\* typeLikeHuman (autofillActions.ts l.12-15) called with one of the values
\* on an input of one of the tabs that holds any text of oldTexts.
InitTyping(values, oldTexts, tabs) ==
    typing \in {[NoTyping EXCEPT !.pc = "start", !.value = v, !.element = e, !.tab = t] :
                    v \in values, e \in oldTexts, t \in tabs} \cup
                IF values = {} THEN {NoTyping} ELSE {}

\* No call of an option matcher.
NoMatching == [pc |-> "idle", fn |-> "", value |-> "", options |-> <<>>, result |-> <<>>]

\* One of the calls is about to run.
InitMatching(calls) ==
    matching \in IF calls = {} THEN {NoMatching} ELSE calls

\* No call of extractCustomOptions.
NoDropdown ==
    [pc |-> "idle", widget |-> <<>>, attempt |-> 1, attempts |-> <<>>, checks |-> <<>>,
     opened |-> <<>>, elapsed |-> 0, resolved |-> <<>>, options |-> <<>>]

\* extractCustomOptions (part_002 l.400) called on one of the widgets, on a
\* page that shows one of the sets of popup elements.
InitDropdown(widgets, documents) ==
    /\ dropdown \in {[NoDropdown EXCEPT !.pc = "start", !.widget = w] : w \in widgets} \cup
                    IF widgets = {} THEN {NoDropdown} ELSE {}
    /\ document \in IF documents = {} THEN {{}} ELSE documents

\* The pattern-exchange server after initStorage (part_004 l.395-399): the
\* patterns file holds no pattern, and no request has been handled.
InitServer ==
    server = [patterns |-> <<>>, requests |-> 0, request |-> <<>>, status |-> 0]

\* The parts of the extension a specification does not exercise, at rest.
InitOthers ==
    /\ InitCache({<<>>})
    /\ InitTyping({}, {}, {})
    /\ InitMatching({})
    /\ InitDropdown({}, {})
    /\ InitServer

\* part_002 l.139-158
mapSeleniumTypeToFieldType(seleniumType) ==
    LET type == toLowerCase(seleniumType) IN
    IF includes(type, "dropdown") \/ includes(type, "select") \/ type = "dropdown_custom"
    THEN "DROPDOWN_CUSTOM"
    ELSE IF type = "select_native" THEN "SELECT_NATIVE"
    ELSE IF type = "textarea" THEN "TEXTAREA"
    ELSE IF type = "email" THEN "EMAIL"
    ELSE IF type = "phone" THEN "PHONE"
    ELSE IF type = "number" THEN "NUMBER"
    ELSE IF type = "radio" \/ type = "radio_group" THEN "RADIO_GROUP"
    ELSE IF type = "checkbox" THEN "CHECKBOX"
    ELSE IF type = "date" THEN "DATE"
    ELSE IF type = "file" \/ type = "file_upload" THEN "FILE_UPLOAD"
    ELSE IF type = "multiselect" THEN "MULTISELECT"
    ELSE "TEXT"

\* fieldFiller.ts fillField: the strategy applied to a field of a given FieldType
\* (either text strategy for the text-like types).
fillField(fieldType) ==
    CASE fieldType \in {"TEXT", "TEXTAREA", "EMAIL", "PHONE", "NUMBER"} ->
            {"fillInput", "typeLikeHuman"}
      [] fieldType = "DATE" -> {"fillDate"}
      [] fieldType = "RADIO_GROUP" -> {"selectRadioByLabel"}
      [] fieldType = "CHECKBOX" -> {"setCheckbox"}
      [] fieldType = "SELECT_NATIVE" -> {"selectNativeOption"}
      [] fieldType = "FILE_UPLOAD" -> {"triggerFileUpload"}
      [] OTHER -> {"selectCustomDropdown"}

TextStrategies == {"fillInput", "typeLikeHuman"}

\* fieldMatching.ts detectFieldsInCurrentDOM: the controls of the page.
detectFieldsInCurrentDOM == page

\* fieldMatching.ts bestMatchField: one of the detected controls, or none.
bestMatchField(detected, questionText) == detected \cup {NoMatch}

\* The label (radio) or option text (native select) equal to the wanted text after
\* normalizeText, the first one in document order; NoLabel when there is none.
matchingLabel(labelText) ==
    LET hits == {i \in 1..Len(Labels) :
                    normalizeText(Labels[i]) = normalizeText(labelText)} IN
    IF hits = {} THEN NoLabel
    ELSE Labels[CHOOSE i \in hits : \A j \in hits : i <= j]

\* The regular expression of triggerFileUpload: /^data:([^;]+);base64,(.+)$/
matchesDataUrl(s) ==
    /\ startsWith(s, "data:")
    /\ \E i \in 7..Len(s) :
          /\ Len(s) >= i + 8
          /\ SubSeq(s, i, i + 7) = ";base64,"
          /\ ~includes(SubSeq(s, 6, i - 1), ";")

\* fileName || 'resume.pdf'
uploadedFileName(fileName) == IF fileName = "" THEN "resume.pdf" ELSE fileName

\* A verification that assumes the value was taken.
verifyInputValue_Assumed(actualValue, expectedValue) == TRUE

\* autofillActions.ts verifyInputValue
verifyInputValue(actualValue, expectedValue) == actualValue = expectedValue

\* The state the control is meant to end in when `strategy` fills `value`.
intendedState(strategy, value, fileName) ==
    CASE strategy \in {"selectRadioByLabel", "selectNativeOption"} -> matchingLabel(value)
      [] strategy = "triggerFileUpload" -> uploadedFileName(fileName)
      [] OTHER -> value

\* What a strategy writes to the control before its first await or its return:
\* fillInput l.63-73, fillDate l.229, typeLikeHuman l.20, selectNativeOption l.194,
\* triggerFileUpload l.281; the click strategies write nothing themselves.
applied(strategy, old, value, fileName) ==
    CASE strategy \in {"fillInput", "fillDate"} -> value
      [] strategy = "typeLikeHuman" -> ""
      [] strategy = "selectNativeOption" ->
            IF matchingLabel(value) = NoLabel THEN old ELSE matchingLabel(value)
      [] strategy = "triggerFileUpload" ->
            IF startsWith(value, "data:") /\ matchesDataUrl(value)
            THEN uploadedFileName(fileName) ELSE old
      [] OTHER -> old

\* What the strategies that read the control back return, given the control's
\* state `actual` when they read it: fillInput l.80, typeLikeHuman l.29/45,
\* fillDate l.234, selectRadioByLabel l.118-127, setCheckbox l.173,
\* selectNativeOption l.198-202.
readBackResult(strategy, actual, value) ==
    CASE strategy \in {"fillInput", "typeLikeHuman", "fillDate"} ->
            verifyInputValue(actual, value)
      [] strategy \in {"selectRadioByLabel", "selectNativeOption"} ->
            matchingLabel(value) # NoLabel /\ actual = matchingLabel(value)
      [] OTHER -> actual = value

\* autofillActions.ts triggerFileUpload l.252-296: false for a data URL the
\* regular expression rejects, true otherwise, without reading element.files.
triggerFileUpload(base64Data) ==
    IF startsWith(base64Data, "data:") THEN matchesDataUrl(base64Data) ELSE TRUE

\* Whether the strategy reads the control's state before it reports success.
readsBack(strategy) == strategy # "triggerFileUpload"

\* The result a strategy returns when the control is in state `actual`.
strategyResult(strategy, actual, value) ==
    IF strategy = "triggerFileUpload" THEN triggerFileUpload(value)
    ELSE readBackResult(strategy, actual, value)

\* An entry of `rf` and of `last` when there is none.
NoField ==
    [questionText |-> "", fieldType |-> "", value |-> "", fileName |-> "",
     elem |-> NoMatch, strategy |-> "none"]
NoLast ==
    [questionText |-> "", strategy |-> "none", elem |-> NoMatch, intended |-> "",
     settled |-> "", ok |-> FALSE]

\* The fields a payload can hold at one position: a field type of `kinds` with a
\* value of its kind (FillPayload.fields, part_002 l.13-30).
FieldsOf(ks) ==
    {[fieldType |-> t, value |-> v, fileName |-> ""] :
        t \in ks \ {"FILE"}, v \in TextValues}
    \cup {[fieldType |-> t, value |-> v, fileName |-> ""] :
        t \in ks \cap {"FILE"}, v \in FileValues}

\* A failure message that leaves the job out.
FailureMessage_NoJob(r, i, questionText, code) ==
    [type |-> "FIELD_FILL_FAILED", runId |-> payload[r].runId, url |-> payload[r].url,
     jobId |-> "", code |-> code, field |-> [questionText |-> questionText, index |-> i]]

\* The FIELD_FILL_FAILED message of reportFieldFailed (part_002 l.182-191); the
\* field it carries is named by its question text and its position in the payload.
FailureMessage(r, i, questionText, code) ==
    [type |-> "FIELD_FILL_FAILED", runId |-> payload[r].runId, url |-> payload[r].url,
     jobId |-> payload[r].jobId, code |-> code,
     field |-> [questionText |-> questionText, index |-> i]]

\* reportFieldFailed called without `await`: the loop goes on at once.
awaitReportFieldFailed_NotAwaited(code) == "sleeping"

\* `await reportFieldFailed(...)` (part_002 l.73, l.87): runAutofill is suspended
\* until the message has settled.
awaitReportFieldFailed(code) == "reporting"

\* A loop that leaves out the field after the current one.
nextField_Skip(i) == i + 2

\* The next position of `for (const rf of payload.fields)` (part_002 l.66).
nextField(i) == i + 1

\* The code of the verification failure reported for a field without match.
noMatchCode_Verify == "FILL_VERIFY_FAILED"

\* The code reported for a field without DOM match (part_002 l.73).
noMatchCode == "NO_DOM_MATCH"

\* The entry pushed for a field without DOM match (part_002 l.72).
noMatchResult(questionText) ==
    [questionText |-> questionText, ok |-> FALSE, reason |-> "No DOM match"]

\* The entry pushed for a filled field (part_002 l.80).
fillResult(questionText, ok) ==
    [questionText |-> questionText, ok |-> ok, reason |-> ""]

InitFill(liveRuns, controls, ks, texts) ==
    /\ live = liveRuns
    /\ page = controls
    /\ kinds = ks
    /\ payload \in [Runs -> {[runId |-> r, url |-> "https://jobs.example/apply",
                              jobId |-> "job", fields |-> fs] : r \in Runs,
                                fs \in UNION {[1..n -> texts] : n \in 0..MaxFields}}]
    /\ \A r \in Runs : payload[r].runId = r /\ (payload[r].fields = <<>> \/ r \in liveRuns)
    /\ pc = [r \in Runs |-> "idle"]
    /\ idx = [r \in Runs |-> 1]
    /\ rf = [r \in Runs |-> NoField]
    /\ results = [r \in Runs |-> <<>>]
    /\ successes = [r \in Runs |-> 0]
    /\ failures = [r \in Runs |-> 0]
    /\ completed = [r \in Runs |-> <<>>]
    /\ dom = [e \in Elems |-> ""]
    /\ inflight = {}
    /\ reports = <<>>
    /\ delivered = {}
    /\ last = [r \in Runs |-> NoLast]

\* The listener of initAutofillRunner (part_002 l.42-46) starts runAutofill for
\* every START_AUTOFILL_EVENT; runAutofill l.54-63.
StartAutofill(r) ==
    /\ r \in live
    /\ pc[r] = "idle"
    /\ \A q \in live : q < r => pc[q] # "idle"
    /\ pc' = [pc EXCEPT ![r] = "loop"]
    /\ UNCHANGED <<resolveVars, storeVars, restVars>>
    /\ UNCHANGED <<live, page, kinds, payload, idx, rf, results, successes, failures,
                   completed, dom, inflight, reports, delivered, last>>

\* runAutofill l.66-76: no DOM element matches the field.
NoDomMatch(r) ==
    /\ pc[r] = "loop"
    /\ idx[r] <= Len(payload[r].fields)
    /\ \E f \in FieldsOf(kinds) :
        LET text == payload[r].fields[idx[r]]
            field == [questionText |-> text, fieldType |-> f.fieldType,
                      value |-> f.value, fileName |-> f.fileName,
                      elem |-> NoMatch, strategy |-> "none"]
            msg == FailureMessage(r, idx[r], text, noMatchCode)
        IN  /\ NoMatch \in bestMatchField(detectFieldsInCurrentDOM, text)
            /\ rf' = [rf EXCEPT ![r] = field]
            /\ results' = [results EXCEPT ![r] = Append(@, noMatchResult(text))]
            /\ inflight' = inflight \cup {msg}
            /\ reports' = Append(reports, msg)
            /\ last' = [last EXCEPT ![r] = [NoLast EXCEPT !.questionText = text]]
            /\ pc' = [pc EXCEPT ![r] = awaitReportFieldFailed(noMatchCode)]
    /\ UNCHANGED <<resolveVars, storeVars, restVars>>
    /\ UNCHANGED <<live, page, kinds, payload, idx, successes, failures, completed, dom,
                   delivered>>

\* runAutofill l.68, l.79 and fillMatchedField l.106-127: a DOM element matches and
\* the strategy of the field's type is started on it.
BeginFill(r) ==
    /\ pc[r] = "loop"
    /\ idx[r] <= Len(payload[r].fields)
    /\ \E f \in FieldsOf(kinds) :
       \E match \in bestMatchField(detectFieldsInCurrentDOM, payload[r].fields[idx[r]]) \ {NoMatch} :
       \E strategy \in fillField(mapSeleniumTypeToFieldType(f.fieldType)) :
            /\ rf' = [rf EXCEPT ![r] =
                        [questionText |-> payload[r].fields[idx[r]],
                         fieldType |-> f.fieldType, value |-> f.value,
                         fileName |-> f.fileName, elem |-> match,
                         strategy |-> strategy]]
            /\ dom' = [dom EXCEPT ![match] = applied(strategy, @, f.value, f.fileName)]
    /\ pc' = [pc EXCEPT ![r] = "filling"]
    /\ UNCHANGED <<resolveVars, storeVars, restVars>>
    /\ UNCHANGED <<live, page, kinds, payload, idx, results, successes, failures, completed,
                   inflight, reports, delivered, last>>

\* The page's own code reacting to the events of a strategy that is under way:
\* it commits the click, types the trusted keystrokes, or resets the control.
PageReact(r) ==
    /\ pc[r] = "filling"
    /\ \E s \in ({"", "No", intendedState(rf[r].strategy, rf[r].value, rf[r].fileName)}
                    \ {NoLabel, dom[rf[r].elem]}) :
            dom' = [dom EXCEPT ![rf[r].elem] = s]
    /\ UNCHANGED <<resolveVars, storeVars, restVars>>
    /\ UNCHANGED <<live, page, kinds, payload, pc, idx, rf, results, successes, failures,
                   completed, inflight, reports, delivered, last>>

\* The strategy returns (or throws and fillMatchedField l.129-132 catches);
\* runAutofill l.80-89 records the result and reports a failure.
EndFill(r) ==
    /\ pc[r] = "filling"
    /\ \E threw \in BOOLEAN :
       \E typed \in IF rf[r].strategy = "typeLikeHuman"
                    THEN {dom[rf[r].elem], rf[r].value} ELSE {dom[rf[r].elem]} :
        LET f == rf[r]
            ok == ~threw /\ strategyResult(f.strategy, typed, f.value)
            msg == FailureMessage(r, idx[r], f.questionText, "FILL_VERIFY_FAILED")
        IN  /\ dom' = [dom EXCEPT ![f.elem] = typed]
            /\ results' = [results EXCEPT ![r] = Append(@, fillResult(f.questionText, ok))]
            /\ last' = [last EXCEPT ![r] =
                          [questionText |-> f.questionText, strategy |-> f.strategy,
                           elem |-> f.elem,
                           intended |-> intendedState(f.strategy, f.value, f.fileName),
                           settled |-> typed, ok |-> ok]]
            /\ IF ok
               THEN /\ successes' = [successes EXCEPT ![r] = @ + 1]
                    /\ pc' = [pc EXCEPT ![r] = "sleeping"]
                    /\ UNCHANGED <<inflight, reports>>
               ELSE /\ inflight' = inflight \cup {msg}
                    /\ reports' = Append(reports, msg)
                    /\ pc' = [pc EXCEPT ![r] = awaitReportFieldFailed("FILL_VERIFY_FAILED")]
                    /\ UNCHANGED successes
    /\ UNCHANGED <<resolveVars, storeVars, restVars>>
    /\ UNCHANGED <<live, page, kinds, payload, idx, rf, failures, completed, delivered>>

\* reportFieldFailed l.180-195: chrome.runtime.sendMessage settles, by a response
\* of the background worker or by an error that is caught and logged; runAutofill
\* l.74-75 / l.88 then counts the failure.
ReportSettled(r) ==
    /\ \E m \in inflight :
        /\ m.runId = payload[r].runId /\ m.field.index = idx[r] /\ pc[r] = "reporting"
        /\ inflight' = inflight \ {m}
        /\ \E received \in BOOLEAN :
              delivered' = IF received THEN delivered \cup {m} ELSE delivered
        /\ failures' = [failures EXCEPT ![r] = @ + 1]
        /\ IF m.code = "NO_DOM_MATCH"
           THEN /\ idx' = [idx EXCEPT ![r] = nextField(@)]
                /\ pc' = [pc EXCEPT ![r] = "loop"]
                /\ rf' = [rf EXCEPT ![r] = NoField]
                /\ last' = [last EXCEPT ![r] = NoLast]
           ELSE /\ pc' = [pc EXCEPT ![r] = "sleeping"]
                /\ UNCHANGED <<idx, rf, last>>
    /\ UNCHANGED <<resolveVars, storeVars, restVars>>
    /\ UNCHANGED <<live, page, kinds, payload, results, successes, completed, dom, reports>>

\* runAutofill l.92: `await sleep(150)`, then the next field.
SleepDone(r) ==
    /\ pc[r] = "sleeping"
    /\ idx' = [idx EXCEPT ![r] = nextField(@)]
    /\ pc' = [pc EXCEPT ![r] = "loop"]
    /\ rf' = [rf EXCEPT ![r] = NoField]
    /\ last' = [last EXCEPT ![r] = NoLast]
    /\ UNCHANGED <<resolveVars, storeVars, restVars>>
    /\ UNCHANGED <<live, page, kinds, payload, results, successes, failures, completed,
                   dom, inflight, reports, delivered>>

\* runAutofill l.95-100: the loop is over, AUTOFILL_COMPLETE_EVENT is dispatched.
Complete(r) ==
    /\ pc[r] = "loop"
    /\ idx[r] > Len(payload[r].fields)
    /\ completed' = [completed EXCEPT ![r] =
                        <<[successes |-> successes[r], failures |-> failures[r]]>>]
    /\ pc' = [pc EXCEPT ![r] = "done"]
    /\ UNCHANGED <<resolveVars, storeVars, restVars>>
    /\ UNCHANGED <<live, page, kinds, payload, idx, rf, results, successes, failures, dom,
                   inflight, reports, delivered, last>>

FillStep(r) ==
    \/ StartAutofill(r)
    \/ NoDomMatch(r)
    \/ BeginFill(r)
    \/ PageReact(r)
    \/ EndFill(r)
    \/ ReportSettled(r)
    \/ SleepDone(r)
    \/ Complete(r)

NextFill == \E r \in Runs : FillStep(r)

\* One run of the Fill Executor over payloads of every field type.
InitSpecFill ==
    /\ InitFill({1}, Elems, SeleniumTypes, QuestionTexts)
    /\ InitResolve({<<>>}, {<<>>}, {<<>>})
    /\ InitStore({})
    /\ InitScan({<<>>})
    /\ InitTrusted({<<>>})
    /\ InitOthers

SpecFill == InitSpecFill /\ [][NextFill]_vars

\* Two START_AUTOFILL_EVENTs on one page, payloads of text fields.
InitSpecRuns ==
    /\ InitFill(Runs, {"e1"}, {"TEXT"}, {"q1"})
    /\ InitResolve({<<>>}, {<<>>}, {<<>>})
    /\ InitStore({})
    /\ InitScan({<<>>})
    /\ InitTrusted({<<>>})
    /\ InitOthers

SpecRuns == InitSpecRuns /\ [][NextFill]_vars

(***************************************************************************)
(* Properties of the Fill Executor                                         *)
(***************************************************************************)

Count(seq, P(_)) == Cardinality({i \in 1..Len(seq) : P(seq[i])})
IsOk(res) == res.ok
IsFailed(res) == ~res.ok

\* The messages sent for field i of run r with a given code.
ReportsFor(r, i, code) ==
    {k \in 1..Len(reports) :
        /\ reports[k].runId = payload[r].runId
        /\ reports[k].field.index = i
        /\ reports[k].code = code}

C6_SuccessOnlyAfterReadBack ==
    \A r \in Runs :
        (last[r].ok /\ last[r].strategy # "selectCustomDropdown") =>
            /\ readsBack(last[r].strategy)
            /\ last[r].settled = last[r].intended

\* C7: results holds one entry per processed field, in payload order; a run that
\* is under way is never stuck (a report it waits for is in flight, a fill it
\* waits for has a control, the loop never overshoots the list); when the run
\* completes every field has an entry and successes + failures is the number
\* of fields.
C7_EveryFieldProcessed ==
    \A r \in Runs :
        /\ Len(results[r]) <= Len(payload[r].fields)
        /\ \A i \in 1..Len(results[r]) :
              results[r][i].questionText = payload[r].fields[i]
        /\ pc[r] = "reporting" =>
              \E m \in inflight : m.runId = payload[r].runId /\ m.field.index = idx[r]
        /\ pc[r] = "filling" => rf[r].elem \in page
        /\ pc[r] \in {"loop", "filling", "reporting", "sleeping"} =>
              idx[r] <= Len(payload[r].fields) + 1
        /\ pc[r] = "done" =>
              /\ Len(results[r]) = Len(payload[r].fields)
              /\ successes[r] + failures[r] = Len(payload[r].fields)
              /\ completed[r] = <<[successes |-> successes[r], failures |-> failures[r]]>>

\* C7 witness: a completed run of two fields, the first without DOM match and its
\* report not received by the background worker, the second failing verification.
C7_Witness ==
    \E r \in Runs :
        /\ pc[r] = "done"
        /\ Len(payload[r].fields) = 2
        /\ results[r][1].reason = "No DOM match"
        /\ ~results[r][2].ok /\ results[r][2].reason = ""
        /\ Len(reports) = 2 /\ delivered = {}
        /\ failures[r] = 2

\* C8: the loop is at one field at a time and takes the fields in payload order:
\* the entries of results are those of the fields before the current one (and
\* the current one once its fill has ended), a fill is under way only for the
\* field at idx, and a failure report is in flight only for the field at idx
\* and only while runAutofill waits for it, never while a fill is under way.
C8_SequentialFields ==
    \A r \in Runs :
        /\ pc[r] \in {"idle", "loop", "filling"} => Len(results[r]) = idx[r] - 1
        /\ pc[r] \in {"reporting", "sleeping"} => Len(results[r]) = idx[r]
        /\ pc[r] = "filling" => rf[r].questionText = payload[r].fields[idx[r]]
        /\ \A m \in inflight :
              m.runId = payload[r].runId =>
                  pc[r] = "reporting" /\ m.field.index = idx[r]
        /\ Cardinality({m \in inflight : m.runId = payload[r].runId}) <= 1

\* C8 witness: the second field is being filled after the first field failed and
\* its report has settled.
C8_Witness ==
    \E r \in Runs :
        /\ pc[r] = "filling" /\ idx[r] = 2
        /\ ~results[r][1].ok
        /\ Len(reports) = 1 /\ inflight = {}

Active(r) == pc[r] \in {"loop", "filling", "reporting", "sleeping"}

\* C9 (as claimed): at most one run is active at a time, and no run fills a
\* field while another run that has begun still has fields to process.
C9_OneActiveRun ==
    \A r1, r2 \in Runs :
        /\ (Active(r1) /\ Active(r2)) => r1 = r2
        /\ (pc[r1] = "filling" /\ Active(r2) /\ 1 < idx[r2]
              /\ idx[r2] <= Len(payload[r2].fields)) => r1 = r2

\* C10: a field without DOM match gets the entry {ok: false, reason: "No DOM
\* match"} and exactly one report with code NO_DOM_MATCH, no strategy is chosen
\* and no control is written for it, it is counted in failures when its report
\* has settled, and the loop goes on to the next field.
C10_NoDomMatch ==
    /\ [](\A r \in Runs : \A i \in 1..Len(results[r]) :
            results[r][i].reason = "No DOM match" =>
                /\ ~results[r][i].ok
                /\ Cardinality(ReportsFor(r, i, "NO_DOM_MATCH")) = 1
                /\ ReportsFor(r, i, "FILL_VERIFY_FAILED") = {}
                /\ i = idx[r] => /\ pc[r] = "reporting"
                                 /\ rf[r].elem = NoMatch /\ rf[r].strategy = "none"
                /\ i < idx[r] => failures[r] >= Count(SubSeq(results[r], 1, i), IsFailed)
                /\ (pc[r] = "done" /\ i < Len(payload[r].fields)) => Len(results[r]) > i)
    /\ [][\A r \in Runs :
            (Len(results'[r]) > Len(results[r])
                /\ results'[r][Len(results'[r])].reason = "No DOM match")
            => dom' = dom]_fillVars
    /\ [][\A r \in Runs :
            (pc[r] = "reporting" /\ rf[r].elem = NoMatch /\ live = {r})
            => (dom' = dom /\ (pc'[r] # pc[r] => pc'[r] = "loop" /\ idx'[r] = idx[r] + 1))]_fillVars

\* C10 witness: the first field had no DOM match, was reported and counted, and
\* the second field was then filled successfully.
C10_Witness ==
    \E r \in Runs :
        /\ Len(results[r]) = 2
        /\ results[r][1].reason = "No DOM match"
        /\ results[r][2].ok
        /\ failures[r] = 1 /\ successes[r] = 1
        /\ \E e \in Elems : dom[e] = "yes "

(***************************************************************************)
(* The Resolution Engine and the Pattern Store                             *)
(***************************************************************************)

\* Bound: the number of questions of one scan.
MaxQuestions == 2

\* `result.confidence >= 0.85` (formScanner.ts l.454); confidences are in hundredths.
ConfidenceThreshold == 85

\* `calculateSimilarity(...) >= 0.7` (part_003 l.147), in hundredths.
SimilarityThreshold == 70

\* `confidence: answer.confidence || 0.8` (formScanner.ts l.669, l.716, l.1179).
DefaultConfidence == 80

\* String.prototype.split(/\s+/): an empty word before a leading and after a
\* trailing run of blanks.
RECURSIVE splitAcc(_, _)
splitAcc(s, word) ==
    IF s = "" THEN <<word>>
    ELSE IF SubSeq(s, 1, 1) = " " THEN <<word>> \o splitAcc(trimStart(s), "")
    ELSE splitAcc(SubSeq(s, 2, Len(s)), word \o SubSeq(s, 1, 1))

split(s) == splitAcc(s, "")

\* s.replace(/[*?!]/g, '')
RECURSIVE removeSpecialChars(_)
removeSpecialChars(s) ==
    IF s = "" THEN ""
    ELSE IF SubSeq(s, 1, 1) \in {"*", "?", "!"}
         THEN removeSpecialChars(SubSeq(s, 2, Len(s)))
         ELSE SubSeq(s, 1, 1) \o removeSpecialChars(SubSeq(s, 2, Len(s)))

\* formScanner.ts normalizeQuestion l.787-791
normalizeQuestion(questionText) == trim(removeSpecialChars(toLowerCase(questionText)))

\* Array.prototype.find / findIndex: the position of the first element that
\* satisfies P, 0 when there is none.
Least(hits) == IF hits = {} THEN 0 ELSE CHOOSE i \in hits : \A j \in hits : i <= j

FirstIndex(seq, P(_)) == Least({i \in 1..Len(seq) : P(seq[i])})

\* The paths of the canonical profile that the Resolution Engine reads.
BooleanPaths ==
    {"workAuthorization.driverLicense", "workAuthorization.needsSponsorship",
     "workAuthorization.authorizedUS", "application.hasRelatives",
     "application.previouslyApplied"}

ProfilePaths ==
    {"personal.firstName", "personal.lastName", "personal.email", "personal.phone",
     "personal.country", "personal.city", "personal.state", "personal.gender",
     "social.linkedin", "social.website",
     "documents.resume.base64", "documents.resume.fileName",
     "documents.coverLetter.base64", "documents.coverLetter.fileName",
     "eeo.gender", "eeo.hispanic", "eeo.veteran", "eeo.disability", "eeo.race"}
    \cup BooleanPaths

\* A profile maps each path to its value: "" for a value that is absent, "true"
\* and "false" for the booleans.
EmptyProfile == [p \in ProfilePaths |-> ""]

\* No result of a tier (null).
NoResult == [answer |-> "", source |-> "none", confidence |-> 0, fileName |-> ""]

TierResult(answer, source, confidence) ==
    [answer |-> answer, source |-> source, confidence |-> confidence, fileName |-> ""]

\* The last tier decides.
RECURSIVE firstFound_Last(_)
firstFound_Last(found) ==
    IF found = <<>> THEN 0
    ELSE IF found[Len(found)] # 0 THEN found[Len(found)]
    ELSE firstFound_Last(SubSeq(found, 1, Len(found) - 1))

\* The first position of `found` that holds a match (a position of options), 0
\* when none does: the order of the return statements of matchInOptions.
RECURSIVE firstFound(_)
firstFound(found) ==
    IF found = <<>> THEN 0
    ELSE IF found[1] # 0 THEN found[1] ELSE firstFound(Tail(found))

\* matchInOptions l.1042-1119 for the lower-cased, trimmed value: the position of
\* the exact match, else of the synonym match, the partial match, the word
\* match, the country match; 0 for null.
matchPosition(valueLower, options) ==
    LET synonym == CASE valueLower = "male" -> "man"
                     [] valueLower = "female" -> "woman"
                     [] valueLower = "man" -> "male"
                     [] valueLower = "woman" -> "female"
                     [] OTHER -> ""
        mappedName == CASE valueLower \in {"usa", "us"} -> "united states"
                        [] valueLower = "uk" -> "united kingdom"
                        [] valueLower = "uae" -> "united arab emirates"
                        [] OTHER -> ""
        IsExact(opt) == trim(toLowerCase(opt)) = valueLower
        IsSynonym(opt) == synonym # "" /\ trim(toLowerCase(opt)) = synonym
        IsPartial(opt) == \/ includes(toLowerCase(opt), valueLower)
                          \/ includes(valueLower, toLowerCase(opt))
        StartsWithWord(optLower, valueWords) ==
            \/ startsWith(optLower, valueLower)
            \/ \E k \in 1..Len(valueWords) :
                    startsWith(optLower, valueWords[k]) /\ Len(valueWords[k]) >= 3
        IsWord(opt) == StartsWithWord(toLowerCase(opt), split(valueLower))
        IsCountry(opt) == mappedName # "" /\ includes(toLowerCase(opt), mappedName)
    IN  firstFound(<<FirstIndex(options, IsExact), FirstIndex(options, IsSynonym),
                     FirstIndex(options, IsPartial), FirstIndex(options, IsWord),
                     FirstIndex(options, IsCountry)>>)

\* The result of matchInOptions for the position found.
matchResult(value, options, confidence, position) ==
    IF Len(options) = 0 THEN TierResult(value, "canonical", confidence)
    ELSE IF position # 0 THEN TierResult(options[position], "canonical", confidence)
    ELSE NoResult

\* formScanner.ts matchInOptions l.1037-1120
matchInOptions(value, options, confidence) ==
    matchResult(value, options, confidence,
                matchPosition(trim(toLowerCase(value)), options))

\* `yesOption || 'Yes'`, `noOption || 'No'`: the option found, else the literal.
optionOr(options, position, literal) ==
    IF position # 0 /\ options[position] # "" THEN options[position] ELSE literal

\* A conversion that does not look at the options.
booleanToYesNo_Literal(value, options) == IF value = "true" THEN "Yes" ELSE "No"

\* formScanner.ts booleanToYesNo l.1006-1032; `value` is "true" or "false".
booleanToYesNo(value, options) ==
    LET IsYesLower(o) == includes(o, "yes") \/ o = "y" \/ includes(o, "true") \/ o = "i do"
        IsNoLower(o) == \/ includes(o, "no") \/ o = "n" \/ includes(o, "false")
                        \/ o = "i do not" \/ o = "i don't" \/ includes(o, "prefer not")
        IsYes(opt) == IsYesLower(toLowerCase(opt))
        IsNo(opt) == IsNoLower(toLowerCase(opt))
    IN  IF Len(options) = 0 THEN (IF value = "true" THEN "Yes" ELSE "No")
        ELSE IF value = "true" THEN optionOr(options, FirstIndex(options, IsYes), "Yes")
        ELSE optionOr(options, FirstIndex(options, IsNo), "No")

\* formScanner.ts fuzzyMatchOption l.998-1001: "" for null.
fuzzyMatchOption(value, options) == matchInOptions(value, options, 90).answer

\* `question.options || undefined` as the callee sees it: no option when undefined.
OptionsOf(question) == IF question.optionsDefined THEN question.options ELSE <<>>

\* formScanner.ts tryCanonical l.799-975: the rules, in their order, on the
\* lower-cased question text.
canonicalRules(question, prof, qLower, options) ==
    LET has(t) == includes(qLower, t)
        isFile == question.fieldType = "file"
        resumeBase64 == prof["documents.resume.base64"]
        coverBase64 == prof["documents.coverLetter.base64"]
        dataUrl(base64Data) ==
            IF startsWith(base64Data, "data:") THEN base64Data
            ELSE "data:application/pdf;base64," \o base64Data
        resumeName ==
            IF prof["documents.resume.fileName"] # ""
            THEN prof["documents.resume.fileName"]
            ELSE IF prof["personal.firstName"] # "" /\ prof["personal.lastName"] # ""
                 THEN prof["personal.firstName"] \o "_" \o prof["personal.lastName"]
                        \o "_Resume.pdf"
                 ELSE "resume.pdf"
        coverName ==
            IF prof["documents.coverLetter.fileName"] # ""
            THEN prof["documents.coverLetter.fileName"] ELSE "cover_letter.pdf"
        yesNo(path) == TierResult(booleanToYesNo(prof[path], options), "canonical", 100)
    IN
    IF has("first name") /\ prof["personal.firstName"] # ""
    THEN TierResult(prof["personal.firstName"], "canonical", 100)
    ELSE IF has("last name") /\ prof["personal.lastName"] # ""
    THEN TierResult(prof["personal.lastName"], "canonical", 100)
    ELSE IF has("email") /\ prof["personal.email"] # ""
    THEN TierResult(prof["personal.email"], "canonical", 100)
    ELSE IF has("phone") /\ prof["personal.phone"] # ""
    THEN TierResult(prof["personal.phone"], "canonical", 100)
    ELSE IF has("country") /\ prof["personal.country"] # ""
    THEN matchInOptions(prof["personal.country"], options, 100)
    ELSE IF has("city") /\ prof["personal.city"] # ""
    THEN TierResult(prof["personal.city"], "canonical", 100)
    ELSE IF has("state") /\ ~has("united") /\ prof["personal.state"] # ""
    THEN TierResult(prof["personal.state"], "canonical", 100)
    ELSE IF (has("linkedin") \/ has("linked in") \/ has("professional profile"))
            /\ prof["social.linkedin"] # ""
    THEN TierResult(prof["social.linkedin"], "canonical", 100)
    ELSE IF (has("website") \/ has("portfolio")) /\ prof["social.website"] # ""
    THEN TierResult(prof["social.website"], "canonical", 100)
    ELSE IF ((isFile /\ includes(question.selector, "resume")) \/ has("resume") \/ has("cv"))
            /\ resumeBase64 # ""
    THEN [answer |-> dataUrl(resumeBase64), source |-> "canonical", confidence |-> 100,
          fileName |-> resumeName]
    ELSE IF ((isFile /\ includes(question.selector, "cover")) \/ has("cover letter")
                \/ has("cover_letter"))
            /\ coverBase64 # ""
    THEN [answer |-> dataUrl(coverBase64), source |-> "canonical", confidence |-> 100,
          fileName |-> coverName]
    ELSE IF has("driver") /\ has("license") /\ prof["workAuthorization.driverLicense"] # ""
    THEN yesNo("workAuthorization.driverLicense")
    ELSE IF has("sponsor") /\ (has("visa") \/ has("work") \/ has("government"))
            /\ prof["workAuthorization.needsSponsorship"] # ""
    THEN yesNo("workAuthorization.needsSponsorship")
    ELSE IF (has("authorized") \/ has("legally")) /\ has("work")
            /\ (has("united states") \/ has("u.s.") \/ has("us") \/ has("america"))
            /\ prof["workAuthorization.authorizedUS"] # ""
    THEN yesNo("workAuthorization.authorizedUS")
    ELSE IF ((has("relat") /\ has("employee")) \/ (has("friend") /\ has("work")))
            /\ prof["application.hasRelatives"] # ""
    THEN yesNo("application.hasRelatives")
    ELSE IF has("previously") /\ has("appl") /\ prof["application.previouslyApplied"] # ""
    THEN yesNo("application.previouslyApplied")
    ELSE IF has("gender") /\ prof["eeo.gender"] # ""
    THEN matchInOptions(prof["eeo.gender"], options, 100)
    ELSE IF (has("hispanic") \/ has("latino")) /\ prof["eeo.hispanic"] # ""
    THEN matchInOptions(prof["eeo.hispanic"], options, 100)
    ELSE IF has("veteran") /\ prof["eeo.veteran"] # ""
    THEN matchInOptions(prof["eeo.veteran"], options, 100)
    ELSE IF has("disability") /\ prof["eeo.disability"] # ""
    THEN matchInOptions(prof["eeo.disability"], options, 100)
    ELSE IF has("race") /\ prof["eeo.race"] # ""
    THEN matchInOptions(prof["eeo.race"], options, 100)
    ELSE NoResult

\* formScanner.ts tryCanonical l.796-976
tryCanonical(question, prof) ==
    canonicalRules(question, prof, toLowerCase(question.questionText), OptionsOf(question))

\* formScanner.ts tryFuzzy l.981-992
tryFuzzy(question, prof) ==
    IF ~question.optionsDefined THEN NoResult
    ELSE IF includes(toLowerCase(question.questionText), "gender")
            /\ prof["personal.gender"] # ""
    THEN matchInOptions(prof["personal.gender"], OptionsOf(question), 90)
    ELSE NoResult

\* formScanner.ts getValueFromProfile l.600-615: "" for null.
getValueFromProfile(prof, intent) ==
    IF intent \notin DOMAIN prof THEN ""
    ELSE IF intent \in BooleanPaths
         THEN (CASE prof[intent] = "true" -> "Yes" [] prof[intent] = "false" -> "No"
                 [] OTHER -> "")
         ELSE prof[intent]

\* part_003 calculateSimilarity l.158-164, in hundredths (rounded down).
wordOverlap(words1, words2) ==
    LET matchedWords == Cardinality({i \in 1..Len(words1) :
                            \E j \in 1..Len(words2) : words2[j] = words1[i]})
        longest == IF Len(words1) >= Len(words2) THEN Len(words1) ELSE Len(words2)
    IN  (matchedWords * 100) \div longest

calculateSimilarity(str1, str2) == wordOverlap(split(str1), split(str2))

\* part_003 searchPatterns l.137-153: the position of the first pattern that
\* matches, 0 for null.
patternMatches(qLower, patternLower) ==
    \/ patternLower = qLower
    \/ calculateSimilarity(qLower, patternLower) >= SimilarityThreshold

searchLower(patterns, qLower) ==
    LET Matches(pattern) == patternMatches(qLower, toLowerCase(pattern.questionPattern))
    IN  FirstIndex(patterns, Matches)

searchPatterns(patterns, questionText) == searchLower(patterns, toLowerCase(questionText))

\* part_003 incrementUsage l.184-193
countUsage(patterns, k) ==
    IF k = 0 THEN patterns ELSE [patterns EXCEPT ![k].usageCount = @ + 1]

incrementUsage(patterns, patternId) ==
    LET HasId(p) == p.id = patternId IN
    countUsage(patterns, FirstIndex(patterns, HasId))

\* part_003 findPattern l.120-132: the store after the call (the usage of the
\* pattern found is counted).
usageCounted(patterns, k) ==
    IF k = 0 THEN patterns ELSE incrementUsage(patterns, patterns[k].id)

findPattern(patterns, questionText) ==
    usageCounted(patterns, searchPatterns(patterns, questionText))

\* `options.find(opt => opt === variant || opt.includes(variant) ||
\* variant.includes(opt))` on lower-cased texts (formScanner.ts l.547-551,
\* l.575-579, l.632-636): the position of the option, 0 when there is none.
fits(optLower, variantLower) ==
    \/ optLower = variantLower
    \/ includes(optLower, variantLower)
    \/ includes(variantLower, optLower)

optionFor(options, variant) ==
    LET Fits(opt) == fits(toLowerCase(opt), toLowerCase(variant)) IN
    FirstIndex(options, Fits)

\* All variants of all mappings in the order of the nested loops.
RECURSIVE allVariants(_)
allVariants(answerMappings) ==
    IF answerMappings = <<>> THEN <<>>
    ELSE answerMappings[1].variants \o allVariants(Tail(answerMappings))

\* The option that fits the first variant that fits an option, "" when no
\* variant fits (formScanner.ts l.545-558, l.631-641).
optionOfVariant(options, variants, v) ==
    IF v = 0 THEN "" ELSE options[optionFor(options, variants[v])]

firstVariantOption(options, variants) ==
    LET Fits(variant) == optionFor(options, variant) # 0 IN
    optionOfVariant(options, variants, FirstIndex(variants, Fits))

\* findBestVariant l.623-645 for the mapping found: `mapping.variants[0] ||
\* canonicalValue` without options, else the option of the first variant that fits.
bestOfMapping(canonicalValue, variants, options) ==
    IF Len(options) = 0
    THEN (IF variants # <<>> /\ variants[1] # "" THEN variants[1] ELSE canonicalValue)
    ELSE firstVariantOption(options, variants)

\* formScanner.ts findBestVariant l.620-646: "" for null.
mappingVariant(canonicalValue, answerMappings, options, k) ==
    IF k = 0 THEN "" ELSE bestOfMapping(canonicalValue, answerMappings[k].variants, options)

findBestVariant(canonicalValue, answerMappings, options) ==
    LET IsFor(m) == m.canonicalValue = canonicalValue IN
    mappingVariant(canonicalValue, answerMappings, options,
                   FirstIndex(answerMappings, IsFor))

\* A result of the learned tier for an answer text, none for "".
learnedResult(answer, confidence) ==
    IF answer = "" THEN NoResult ELSE TierResult(answer, "learned", confidence)

\* tryLearned l.561-594: no stored variant fits an option; the profile's value
\* for the pattern's intent decides.
learnedFallback(question, pattern, canonicalValue) ==
    IF canonicalValue = "" THEN NoResult
    ELSE IF pattern.answerMappingsDefined /\ Len(pattern.answerMappings) > 0
    THEN learnedResult(findBestVariant(canonicalValue, pattern.answerMappings,
                                       OptionsOf(question)),
                       pattern.confidence)
    ELSE IF question.optionsDefined /\ Len(question.options) > 0
    THEN learnedResult(optionOfVariant(question.options, <<canonicalValue>>,
                            IF optionFor(question.options, canonicalValue) # 0
                            THEN 1 ELSE 0),
                       pattern.confidence)
    ELSE TierResult(canonicalValue, "learned", pattern.confidence)

\* tryLearned l.543-559, then the fallback.
learnedFromVariant(question, pattern, prof, option) ==
    IF option # "" THEN TierResult(option, "learned", pattern.confidence)
    ELSE learnedFallback(question, pattern, getValueFromProfile(prof, pattern.intent))

learnedFrom(question, pattern, prof) ==
    learnedFromVariant(question, pattern, prof,
        IF pattern.answerMappingsDefined /\ Len(pattern.answerMappings) > 0
            /\ question.optionsDefined
        THEN firstVariantOption(question.options, allVariants(pattern.answerMappings))
        ELSE "")

learnedAt(question, prof, patterns, k) ==
    IF k = 0 THEN NoResult ELSE learnedFrom(question, patterns[k], prof)

\* formScanner.ts tryLearned l.530-595
tryLearned(question, prof, patterns) ==
    learnedAt(question, prof, patterns, searchPatterns(patterns, question.questionText))

\* tryMapping l.505-524: the first tier that gives a result; the fuzzy tier is
\* asked only for a question with options.
firstResult(first, second, fuzzyResult, question) ==
    IF first # NoResult THEN first
    ELSE IF second # NoResult THEN second
    ELSE IF question.optionsDefined /\ Len(question.options) > 0 THEN fuzzyResult
    ELSE NoResult

\* A mapping that asks the Pattern Store before the profile.
tryMapping_LearnedFirst(question, prof, patterns) ==
    firstResult(tryLearned(question, prof, patterns), tryCanonical(question, prof),
                tryFuzzy(question, prof), question)

\* formScanner.ts tryMapping l.502-525
tryMapping(question, prof, patterns) ==
    firstResult(tryCanonical(question, prof), tryLearned(question, prof, patterns),
                tryFuzzy(question, prof), question)

\* The keyword rules of detectIntent (formScanner.ts l.754-767): "" for null.
keywordRules(qLower) ==
    LET has(t) == includes(qLower, t)
    IN  IF has("gender") \/ has("sex") THEN "eeo.gender"
        ELSE IF has("hispanic") \/ has("latino") THEN "eeo.hispanic"
        ELSE IF has("veteran") THEN "eeo.veteran"
        ELSE IF has("disability") THEN "eeo.disability"
        ELSE IF has("race") \/ has("ethnicity") THEN "eeo.race"
        ELSE IF has("sponsor") THEN "workAuth.needsSponsorship"
        ELSE IF has("authorized") /\ has("work") THEN "workAuth.authorizedUS"
        ELSE IF has("driver") /\ has("license") THEN "workAuth.driverLicense"
        ELSE IF has("linkedin") THEN "social.linkedin"
        ELSE IF has("website") \/ has("portfolio") THEN "social.website"
        ELSE IF has("first name") \/ has("given name") THEN "personal.firstName"
        ELSE IF has("last name") \/ has("family name") \/ has("surname")
             THEN "personal.lastName"
        ELSE IF has("email") THEN "personal.email"
        ELSE IF has("phone") \/ has("mobile") THEN "personal.phone"
        ELSE ""

keywordIntent(questionText) == keywordRules(toLowerCase(questionText))

\* The profile paths detectIntent compares the answer with (l.738-751).
AnswerPaths ==
    <<"eeo.gender", "eeo.hispanic", "eeo.veteran", "eeo.disability", "eeo.race",
      "personal.firstName", "personal.lastName", "personal.email", "personal.phone",
      "personal.city", "personal.state", "personal.country", "social.linkedin",
      "social.website">>

intentAt(k, questionText) == IF k # 0 THEN AnswerPaths[k] ELSE keywordIntent(questionText)

\* formScanner.ts detectIntent l.734-770: the profile value the answer equals,
\* then the keywords of the question.
detectIntent(questionText, answer, prof) ==
    LET IsAnswer(path) == prof[path] # "" /\ answer = prof[path] IN
    intentAt(FirstIndex(AnswerPaths, IsAnswer), questionText)

\* The pattern learnFromAIResponse builds for an intent (l.664-680, l.711-725).
patternFor(question, answer, intent, isNew, valueToStore) ==
    [questionPattern |-> normalizeQuestion(question.questionText),
     intent |-> intent, canonicalKey |-> intent, fieldType |-> question.fieldType,
     confidence |-> IF answer.confidence # 0 THEN answer.confidence
                    ELSE DefaultConfidence,
     source |-> IF isNew THEN "AI-new" ELSE "AI",
     isCustomIntent |-> isNew,
     answerMappingsDefined |-> (isNew => question.optionsDefined),
     answerMappings |->
        IF isNew /\ ~question.optionsDefined THEN <<>>
        ELSE <<[canonicalValue |-> valueToStore, variants |-> <<answer.answer>>,
                contextOptions |-> OptionsOf(question)]>>]

\* `canonicalValue || answer.answer` (l.706)
valueOr(canonicalValue, answer) == IF canonicalValue # "" THEN canonicalValue ELSE answer

learnedPattern(question, answer, prof, intent) ==
    IF answer.canonicalKey # "" /\ answer.isNewIntent
    THEN <<patternFor(question, answer, intent, TRUE, answer.answer)>>
    ELSE IF intent = "" THEN <<>>
    ELSE <<patternFor(question, answer, intent, FALSE,
                      valueOr(getValueFromProfile(prof, intent), answer.answer))>>

\* formScanner.ts learnFromAIResponse l.651-729: the pattern handed to
\* addPattern, <<>> when nothing is learned.
learnFromAIResponse(question, answer, prof) ==
    learnedPattern(question, answer, prof,
                   IF answer.canonicalKey # "" THEN answer.canonicalKey
                   ELSE detectIntent(question.questionText, answer.answer, prof))

\* part_003 l.88-92: the variants not yet held are pushed.
RECURSIVE mergeVariants(_, _)
mergeVariants(variants, new) ==
    IF new = <<>> THEN variants
    ELSE mergeVariants(IF \E k \in 1..Len(variants) : variants[k] = new[1]
                       THEN variants ELSE Append(variants, new[1]),
                       Tail(new))

\* part_003 l.83-96: each new mapping is merged into the mapping of its
\* canonical value, or pushed.
RECURSIVE mergeMappings(_, _)
mergeMappings(existing, new) ==
    IF new = <<>> THEN existing
    ELSE LET IsFor(m) == m.canonicalValue = new[1].canonicalValue
             mergedAt(k) ==
                IF k # 0
                THEN [existing EXCEPT ![k].variants = mergeVariants(@, new[1].variants)]
                ELSE Append(existing, new[1])
         IN  mergeMappings(mergedAt(FirstIndex(existing, IsFor)), Tail(new))

\* part_003 l.80-112: the entry found at k is merged into, or a new entry is
\* pushed.  An id is unique to its pattern; lastUsed and createdAt are left out.
storeWith(patterns, pattern, k) ==
    IF k # 0
    THEN [patterns EXCEPT
            ![k].answerMappings =
                IF pattern.answerMappingsDefined /\ patterns[k].answerMappingsDefined
                THEN mergeMappings(@, pattern.answerMappings) ELSE @,
            ![k].synced = FALSE]
    ELSE Append(patterns,
            [id |-> Len(patterns) + 1, usageCount |-> 0, synced |-> FALSE,
             questionPattern |-> pattern.questionPattern, intent |-> pattern.intent,
             canonicalKey |-> pattern.canonicalKey, fieldType |-> pattern.fieldType,
             confidence |-> pattern.confidence, source |-> pattern.source,
             isCustomIntent |-> pattern.isCustomIntent,
             answerMappingsDefined |-> pattern.answerMappingsDefined,
             answerMappings |-> pattern.answerMappings])

\* A lookup that compares the stored question pattern as written.
existingPattern_AsWritten(patterns, intent, questionPatternLower) ==
    LET IsSame(p) == /\ p.intent = intent
                     /\ p.questionPattern = questionPatternLower
    IN  FirstIndex(patterns, IsSame)

\* The entry of the store with the pattern's intent and question pattern.
existingPattern(patterns, intent, questionPatternLower) ==
    LET IsSame(p) == /\ p.intent = intent
                     /\ toLowerCase(p.questionPattern) = questionPatternLower
    IN  FirstIndex(patterns, IsSame)

\* part_003 addPattern l.71-118: the store after the call.
addPattern(patterns, pattern) ==
    storeWith(patterns, pattern,
              existingPattern(patterns, pattern.intent,
                              toLowerCase(pattern.questionPattern)))

\* A write that replaces the whole storage area.
saveLocalPatterns_WholeArea(stored, patterns) ==
    [profile |-> <<>>, learnedPatterns |-> patterns]

\* part_003 saveLocalPatterns l.60-66: chrome.storage.local.set writes the key
\* learnedPatterns and leaves the other keys of the area, the profile among
\* them, as they are.
saveLocalPatterns(stored, patterns) ==
    [profile |-> stored, learnedPatterns |-> patterns]

\* The MappedAnswer of a question (formScanner.ts l.409-420).
MappedAnswer(q, answer, source, confidence, fileName, canonicalKey, isNewIntent) ==
    [selector |-> q.selector, questionText |-> q.questionText, answer |-> answer,
     source |-> source, confidence |-> confidence, required |-> q.required,
     fieldType |-> q.fieldType, optionsDefined |-> q.optionsDefined,
     options |-> q.options, fileName |-> fileName, canonicalKey |-> canonicalKey,
     isNewIntent |-> isNewIntent]

\* The promise of one question of requestAIAnswers.
Pending == [state |-> "pending", answer |-> <<>>]

\* `return null`, with the place it is returned from: "error" (l.1192), "no answer"
\* (l.1188), "no option" (l.1167).
Null(cause) == [state |-> "null", answer |-> <<>>, cause |-> cause]

Answered(a) == [state |-> "answered", answer |-> <<a>>]

\* The answer of requestAIAnswers l.1174-1185.
aiMappedAnswer(q, aiResponse, finalAnswer) ==
    Answered(MappedAnswer(q, finalAnswer, "AI",
                          IF aiResponse.confidence # 0 THEN aiResponse.confidence
                          ELSE DefaultConfidence,
                          "", aiResponse.intent, aiResponse.isNewIntent))

\* A validation that lets the answer of the oracle through as it is.
validated_Unchecked(q, aiResponse, exactMatch) == aiResponse.answer

\* requestAIAnswers l.1150-1172: the option equal to the answer, else the option
\* matchInOptions finds, else null.
validated(q, aiResponse, exactMatch) ==
    IF exactMatch # 0 THEN q.options[exactMatch]
    ELSE fuzzyMatchOption(aiResponse.answer, q.options)

answerOrNull(q, aiResponse, finalAnswer) ==
    IF finalAnswer = "" THEN Null("no option")
    ELSE aiMappedAnswer(q, aiResponse, finalAnswer)

\* requestAIAnswers l.1131-1194 for one question: the answer of the oracle is
\* validated against the options; no answer, an answer no option matches and an
\* error of askAI give null.
aiAnswerFor(q, aiResponse, threw) ==
    LET IsExact(opt) == trim(toLowerCase(opt)) = trim(toLowerCase(aiResponse.answer))
    IN  IF threw THEN Null("error")
        ELSE IF aiResponse.answer = "" THEN Null("no answer")
        ELSE IF q.optionsDefined /\ Len(q.options) > 0
             THEN answerOrNull(q, aiResponse,
                               validated(q, aiResponse, FirstIndex(q.options, IsExact)))
        ELSE aiMappedAnswer(q, aiResponse, aiResponse.answer)

\* results.filter(answer => answer !== null) (formScanner.ts l.1200)
RECURSIVE filterAnswered(_)
filterAnswered(rs) ==
    IF rs = <<>> THEN <<>>
    ELSE (IF rs[1].state = "answered" THEN rs[1].answer ELSE <<>>)
            \o filterAnswered(Tail(rs))

\* The questions of a scan (ScannedQuestion, formScanner.ts l.401-407): a
\* dropdown, a radio group and a text field, which has no options.
Questions ==
    {[questionText |-> "Gender", fieldType |-> "dropdown_custom", optionsDefined |-> TRUE,
      options |-> <<"Woman", "Man">>, required |-> FALSE, selector |-> "#gender"],
     [questionText |-> "Authorized to work in US?", fieldType |-> "radio",
      optionsDefined |-> TRUE, options |-> <<"I am", "I am not">>, required |-> TRUE,
      selector |-> "#auth"],
     [questionText |-> "Why us?", fieldType |-> "text", optionsDefined |-> FALSE,
      options |-> <<>>, required |-> TRUE, selector |-> "#why"]}

\* The stored profiles: one without any value, one of a user who filled the
\* EEO and work authorization sections, one who gave a gender with the personal data.
Profiles ==
    {EmptyProfile,
     [EmptyProfile EXCEPT !["personal.firstName"] = "Ann", !["eeo.gender"] = "Male",
                          !["workAuthorization.authorizedUS"] = "true"],
     [EmptyProfile EXCEPT !["personal.gender"] = "Female"]}

\* What askAI can resolve to (AIResponse: answer, confidence, intent, isNewIntent).
AIResponses ==
    {[answer |-> "Woman", confidence |-> 90, intent |-> "eeo.gender", isNewIntent |-> FALSE],
     [answer |-> "Male", confidence |-> 0, intent |-> "", isNewIntent |-> FALSE],
     [answer |-> "I am", confidence |-> 90, intent |-> "workAuth.authorizedUS",
      isNewIntent |-> FALSE],
     [answer |-> "Growth", confidence |-> 90, intent |-> "custom.why", isNewIntent |-> TRUE],
     [answer |-> "Growth", confidence |-> 90, intent |-> "custom.why", isNewIntent |-> FALSE],
     [answer |-> "", confidence |-> 0, intent |-> "", isNewIntent |-> FALSE]}

\* The store after learnFromAIResponse and addPattern for one answer.
learnedInto(patterns, p) == IF p = <<>> THEN patterns ELSE addPattern(patterns, p[1])

learn(patterns, question, answer, prof) ==
    learnedInto(patterns, learnFromAIResponse(question, answer, prof))

\* The store after one result of requestAIAnswers has been learned.
learnResult(patterns, question, result, prof) ==
    IF result.state = "answered" THEN learn(patterns, question, result.answer[1], prof)
    ELSE patterns

\* The store after the learning steps of earlier scans, each the answer of the
\* oracle to a question under the profile stored at the time.
RECURSIVE StoreAfter(_)
StoreAfter(learned) ==
    IF learned = <<>> THEN <<>>
    ELSE learnResult(StoreAfter(SubSeq(learned, 1, Len(learned) - 1)),
                     learned[Len(learned)].question,
                     aiAnswerFor(learned[Len(learned)].question,
                                 learned[Len(learned)].response, FALSE),
                     learned[Len(learned)].profile)

\* The stores a scan can start from: the empty one and those of one earlier
\* learning step.
KnownStores ==
    {StoreAfter(<<>>)} \cup
    {StoreAfter(<<[question |-> q, response |-> r, profile |-> EmptyProfile]>>) :
        q \in Questions,
        r \in {x \in AIResponses : x.intent \in {"eeo.gender", "custom.why", ""}
                                    /\ x.isNewIntent = (x.intent = "custom.why")}}

\* A call that returns an empty plan when no profile is stored.
afterLoadProfile_Silent(stored) == IF stored = <<>> THEN "done" ELSE "phase1"

\* processQuestions l.442-445: `if (!profile) throw new Error(...)`.
afterLoadProfile(stored) == IF stored = <<>> THEN "failed" ELSE "phase1"

\* processQuestions l.442-445: loadProfile; without a profile the call throws.
LoadProfile ==
    /\ qpc = "idle"
    /\ qpc' = afterLoadProfile(profile)
    /\ UNCHANGED <<fillVars, restVars, storeVars,
                   profile, learnedPatterns, questions, qi, mappedAnswers,
                   unmappedForAI, aiResults, aiAnswers, li, observations>>

\* A loop that queues every question, whether it emitted an answer or not.
Emit_Both(q, result) ==
    /\ unmappedForAI' = Append(unmappedForAI, q)
    /\ IF result # NoResult /\ result.confidence >= ConfidenceThreshold
       THEN mappedAnswers' =
                Append(mappedAnswers,
                       MappedAnswer(q, result.answer, result.source, result.confidence,
                                    result.fileName, "", FALSE))
       ELSE UNCHANGED mappedAnswers

\* processQuestions l.454-473: a result of confidence 0.85 or more is emitted,
\* anything else queues the question for the AI oracle.
Emit(q, result) ==
    IF result # NoResult /\ result.confidence >= ConfidenceThreshold
    THEN /\ mappedAnswers' =
                Append(mappedAnswers,
                       MappedAnswer(q, result.answer, result.source, result.confidence,
                                    result.fileName, "", FALSE))
         /\ UNCHANGED unmappedForAI
    ELSE /\ unmappedForAI' = Append(unmappedForAI, q)
         /\ UNCHANGED mappedAnswers

\* tryLearned is reached only without a canonical result (tryMapping l.505-511),
\* and findPattern then counts the usage of the pattern it finds.
storeAfterMapping(canonicalResult, patterns, questionText) ==
    IF canonicalResult = NoResult THEN findPattern(patterns, questionText) ELSE patterns

\* processQuestions l.451-474: one question of phase 1.
TryMapping ==
    /\ qpc = "phase1"
    /\ qi <= Len(questions)
    /\ Emit(questions[qi], tryMapping(questions[qi], profile[1], learnedPatterns))
    /\ \E saved \in {saveLocalPatterns(profile,
                        storeAfterMapping(tryCanonical(questions[qi], profile[1]),
                                          learnedPatterns, questions[qi].questionText))} :
            /\ profile' = saved.profile
            /\ learnedPatterns' = saved.learnedPatterns
    /\ qi' = qi + 1
    /\ UNCHANGED <<fillVars, restVars, storeVars,
                   questions, qpc, aiResults, aiAnswers, li,
                   observations>>

\* processQuestions l.477-480 and requestAIAnswers l.1131: phase 1 is over; with
\* questions queued, one askAI call per question is started, all at once.
RequestAIAnswers ==
    /\ qpc = "phase1"
    /\ qi > Len(questions)
    /\ IF Len(unmappedForAI) > 0
       THEN /\ qpc' = "ai"
            /\ aiResults' = [k \in 1..Len(unmappedForAI) |-> Pending]
       ELSE /\ qpc' = "done"
            /\ UNCHANGED aiResults
    /\ UNCHANGED <<fillVars, restVars, storeVars,
                   profile, learnedPatterns, questions, qi, mappedAnswers,
                   unmappedForAI, aiAnswers, li, observations>>

\* requestAIAnswers l.1132-1193: the askAI call of one queued question settles.
AIReply ==
    /\ qpc = "ai"
    /\ \E k \in 1..Len(aiResults) :
       \E aiResponse \in AIResponses :
       \E threw \in BOOLEAN :
            /\ aiResults[k] = Pending
            /\ threw => aiResponse.answer = ""   \* an error carries no response
            /\ aiResults' = [aiResults EXCEPT
                                ![k] = aiAnswerFor(unmappedForAI[k], aiResponse, threw)]
    /\ UNCHANGED <<fillVars, restVars, storeVars,
                   profile, learnedPatterns, questions, qpc, qi, mappedAnswers,
                   unmappedForAI, aiAnswers, li, observations>>

\* A wait that ends with the first call that settles.
allSettled_First(rs) == \E k \in 1..Len(rs) : rs[k] # Pending

\* requestAIAnswers l.1197: Promise.all(aiPromises) resolves when every call
\* has settled (a call never rejects: its errors are caught, l.1190-1193).
allSettled(rs) == \A k \in 1..Len(rs) : rs[k] # Pending

\* requestAIAnswers l.1197-1206: Promise.all resolves, the null results are
\* filtered out.
AIAnswersReady ==
    /\ qpc = "ai"
    /\ allSettled(aiResults)
    /\ aiAnswers' = filterAnswered(aiResults)
    /\ qpc' = "learning"
    /\ li' = 1
    /\ UNCHANGED <<fillVars, restVars, storeVars,
                   profile, learnedPatterns, questions, qi, mappedAnswers,
                   unmappedForAI, aiResults, observations>>

\* processQuestions l.483-490: one round of the learning loop, which pairs
\* unmappedForAI[i] with aiAnswers[i].
Learn ==
    /\ qpc = "learning"
    /\ li <= Len(unmappedForAI)
    /\ IF li <= Len(aiAnswers)
       THEN /\ \E saved \in {saveLocalPatterns(profile,
                                learn(learnedPatterns, unmappedForAI[li], aiAnswers[li],
                                      profile[1]))} :
                    /\ profile' = saved.profile
                    /\ learnedPatterns' = saved.learnedPatterns
            /\ observations' =
                    Append(observations,
                           [question |-> unmappedForAI[li], answer |-> aiAnswers[li]])
       ELSE UNCHANGED <<profile, learnedPatterns, observations>>
    /\ li' = li + 1
    /\ UNCHANGED <<fillVars, restVars, storeVars,
                   questions, qpc, qi, mappedAnswers, unmappedForAI,
                   aiResults, aiAnswers>>

\* processQuestions l.492-496: the AI answers are appended and the plan returned.
ReturnAnswers ==
    /\ qpc = "learning"
    /\ li > Len(unmappedForAI)
    /\ mappedAnswers' = mappedAnswers \o aiAnswers
    /\ qpc' = "done"
    /\ UNCHANGED <<fillVars, restVars, storeVars,
                   profile, learnedPatterns, questions, qi, unmappedForAI,
                   aiResults, aiAnswers, li, observations>>

NextResolve ==
    \/ LoadProfile
    \/ TryMapping
    \/ RequestAIAnswers
    \/ AIReply
    \/ AIAnswersReady
    \/ Learn
    \/ ReturnAnswers

\* The question lists of a scan.
QuestionLists == UNION {[1..n -> Questions] : n \in 0..MaxQuestions}

\* One call of processQuestions, on a page no autofill run has been started on.
InitSpecResolve ==
    /\ InitFill({}, Elems, {}, {})
    /\ InitResolve({<<>>} \cup {<<p>> : p \in Profiles}, KnownStores, QuestionLists)
    /\ InitStore({})
    /\ InitScan({<<>>})
    /\ InitTrusted({<<>>})
    /\ InitOthers

SpecResolve == InitSpecResolve /\ [][NextResolve]_vars

(***************************************************************************)
(* Properties of the Resolution Engine                                     *)
(***************************************************************************)

\* The intents of the EEO/compliance fields (README.md, Non-Negotiable Rules, 2),
\* as detectIntent names them.
ProtectedIntents ==
    {"eeo.gender", "eeo.hispanic", "eeo.veteran", "eeo.disability", "eeo.race",
     "workAuth.needsSponsorship", "workAuth.authorizedUS"}

IsProtected(questionText) == keywordIntent(questionText) \in ProtectedIntents

\* C1 (as claimed): no answer emitted for a question about an EEO/compliance
\* field has source AI.
C1_NoAIForProtected ==
    \A k \in 1..Len(mappedAnswers) :
        IsProtected(mappedAnswers[k].questionText) => mappedAnswers[k].source # "AI"

\* C2 (as claimed): every answer emitted for a question with a non-empty options
\* list equals, case-insensitively, one of the options.
C2_AnswerAmongOptions ==
    \A k \in 1..Len(mappedAnswers) :
        (mappedAnswers[k].optionsDefined /\ Len(mappedAnswers[k].options) > 0) =>
            \E o \in 1..Len(mappedAnswers[k].options) :
                toLowerCase(mappedAnswers[k].options[o])
                    = toLowerCase(mappedAnswers[k].answer)

\* The answer emitted for question q from a canonical result.
CanonicalAnswer(q, result) ==
    MappedAnswer(q, result.answer, "canonical", result.confidence, result.fileName,
                 "", FALSE)

\* C3: a question the canonical tier answers is emitted once phase 1 has passed
\* it, with the canonical answer and source canonical, is not queued for the AI
\* oracle and gets no answer of another source, whatever the Pattern Store holds.
C3_CanonicalWins ==
    qpc \notin {"idle", "failed"} =>
        \A i \in 1..Len(questions) :
            (i < qi /\ tryCanonical(questions[i], profile[1]) # NoResult) =>
                /\ \E k \in 1..Len(mappedAnswers) :
                        mappedAnswers[k] =
                            CanonicalAnswer(questions[i],
                                            tryCanonical(questions[i], profile[1]))
                /\ \A k \in 1..Len(mappedAnswers) :
                        mappedAnswers[k].selector = questions[i].selector =>
                            mappedAnswers[k].source = "canonical"
                /\ \A k \in 1..Len(unmappedForAI) : unmappedForAI[k] # questions[i]
                /\ \A k \in 1..Len(observations) :
                        observations[k].question # questions[i]

\* C3 witness: the store holds a pattern for "Gender" whose variant "Woman" the
\* learned tier would answer, the profile says "Male", and the finished call has
\* emitted "Man" with source canonical.
C3_Witness ==
    /\ qpc = "done"
    /\ \E i \in 1..Len(questions) :
        /\ questions[i].questionText = "Gender"
        /\ tryLearned(questions[i], profile[1], learnedPatterns)
                = TierResult("Woman", "learned", 90)
        /\ \E k \in 1..Len(mappedAnswers) :
                /\ mappedAnswers[k].questionText = "Gender"
                /\ mappedAnswers[k].answer = "Man"
                /\ mappedAnswers[k].source = "canonical"

Occurrences(seq, x) == Cardinality({k \in 1..Len(seq) : seq[k] = x})

\* The entries of the store for the (intent, questionPattern) pair of pattern p.
EntriesOf(p) ==
    {k \in 1..Len(learnedPatterns) :
        /\ learnedPatterns[k].intent = p.intent
        /\ toLowerCase(learnedPatterns[k].questionPattern) = toLowerCase(p.questionPattern)}

\* The stored entry holds `variant` exactly once, in exactly one mapping of
\* canonical value `value`.
HoldsOnce(entry, value, variant) ==
    /\ entry.answerMappingsDefined
    /\ Cardinality({m \in 1..Len(entry.answerMappings) :
                        entry.answerMappings[m].canonicalValue = value}) = 1
    /\ \A m \in 1..Len(entry.answerMappings) :
            entry.answerMappings[m].canonicalValue = value =>
                Occurrences(entry.answerMappings[m].variants, variant) = 1

\* The canonical value under which learnFromAIResponse stores the answer.
StoredUnder(p, answer) ==
    IF p.answerMappings # <<>> THEN p.answerMappings[1].canonicalValue ELSE answer

\* C4 (as claimed): when the learning step has run twice with the same question
\* and the same AI answer, the store holds exactly one pattern for the (intent,
\* questionPattern) pair and its answer mapping holds the variant exactly once.
C4_LearnTwiceOnePattern ==
    \A i, j \in 1..Len(observations) :
        (i < j /\ observations[i] = observations[j]) =>
            LET o == observations[i]
                p == learnFromAIResponse(o.question, o.answer, profile[1])
            IN  p # <<>> =>
                    /\ Cardinality(EntriesOf(p[1])) = 1
                    /\ \A k \in EntriesOf(p[1]) :
                            HoldsOnce(learnedPatterns[k],
                                      StoredUnder(p[1], o.answer.answer),
                                      o.answer.answer)

(***************************************************************************)
(* Further properties of the Fill Executor                                 *)
(***************************************************************************)

\* The messages sent for field i of run r, with any code.
SentFor(r, i) ==
    {k \in 1..Len(reports) :
        reports[k].runId = payload[r].runId /\ reports[k].field.index = i}

\* The failure event the claim describes for field i of run r.
ExpectedEvent(r, i) ==
    [type |-> "FIELD_FILL_FAILED", runId |-> payload[r].runId, url |-> payload[r].url,
     jobId |-> payload[r].jobId,
     code |-> IF results[r][i].reason = "No DOM match" THEN "NO_DOM_MATCH"
              ELSE "FILL_VERIFY_FAILED",
     field |-> [questionText |-> payload[r].fields[i], index |-> i]]

\* C11: a field recorded as failed has exactly one failure event, which carries
\* runId, url, jobId, the code of the failure and the field; a field recorded as
\* ok has none; no event is sent for a field without a result; and the loop
\* never comes back to a field that has a result (no retry).
C11_OneFailureEvent ==
    \A r \in Runs :
        /\ \A i \in 1..Len(results[r]) :
            /\ results[r][i].ok => SentFor(r, i) = {}
            /\ ~results[r][i].ok =>
                  /\ Cardinality(SentFor(r, i)) = 1
                  /\ \A k \in SentFor(r, i) : reports[k] = ExpectedEvent(r, i)
            /\ idx[r] >= i
            /\ pc[r] \in {"loop", "filling"} => idx[r] > i
        /\ \A i \in (Len(results[r]) + 1)..MaxFields : SentFor(r, i) = {}

\* C11 witness: a completed run of two fields, the first filled, the second
\* failing verification, with the one event of the second field.
C11_Witness ==
    \E r \in Runs :
        /\ pc[r] = "done"
        /\ Len(results[r]) = 2
        /\ results[r][1].ok /\ ~results[r][2].ok
        /\ Len(reports) = 1
        /\ reports[1].code = "FILL_VERIFY_FAILED" /\ reports[1].field.index = 2

(***************************************************************************)
(* Further properties of the Resolution Engine                             *)
(***************************************************************************)

\* How far a call of processQuestions has come: its stage, the positions of its
\* two loops and the number of askAI calls that have settled.
Stage ==
    CASE qpc = "idle" -> 0 [] qpc = "phase1" -> 1 [] qpc = "ai" -> 2
      [] qpc = "learning" -> 3 [] OTHER -> 4

Progress ==
    Stage * 100 + qi + li + Cardinality({k \in 1..Len(aiResults) : aiResults[k] # Pending})

\* A call that has neither returned nor thrown has a step to take: the guards
\* of LoadProfile, TryMapping / RequestAIAnswers, AIReply / AIAnswersReady and
\* Learn / ReturnAnswers.
CanStep ==
    \/ qpc = "idle"
    \/ qpc = "phase1" /\ profile # <<>> /\ qi \in 1..(Len(questions) + 1)
    \/ qpc = "ai" /\ Len(aiResults) = Len(unmappedForAI)
    \/ qpc = "learning" /\ profile # <<>> /\ li \in 1..(Len(unmappedForAI) + 1)

AnsweredCalls == {k \in 1..Len(aiResults) : aiResults[k].state = "answered"}

\* C13 (as claimed): when the call has returned, an askAI call that failed or gave
\* no answer has cost only its own question: every answer of the other calls
\* is emitted, exactly those answers have source AI, and each of them has been
\* learned for the question it answers.
C13_FailedCallCostsOneQuestion ==
    qpc = "done" =>
        /\ \A k \in AnsweredCalls :
            /\ \E m \in 1..Len(mappedAnswers) : mappedAnswers[m] = aiResults[k].answer[1]
            /\ \E o \in 1..Len(observations) :
                    observations[o] = [question |-> unmappedForAI[k],
                                       answer |-> aiResults[k].answer[1]]
        /\ Cardinality({m \in 1..Len(mappedAnswers) : mappedAnswers[m].source = "AI"})
                = Cardinality(AnsweredCalls)

\* The answer is, letter for letter, one of the options of its question.
IsAnOption(a) == \E o \in 1..Len(a.options) : a.options[o] = a.answer

\* C14: an AI answer for a question with options is one of the options, as a
\* result of requestAIAnswers, as an emitted answer and as an answer handed to
\* the learning step; a question whose AI answer matched no option is left out
\* of the output (the emitted answers of source AI are those of the calls that
\* gave a result, question by question), and only results of requestAIAnswers
\* are learned.
C14_AIAnswerIsAnOption ==
    /\ \A k \in AnsweredCalls :
            Len(unmappedForAI[k].options) > 0 => IsAnOption(aiResults[k].answer[1])
    /\ \A m \in 1..Len(mappedAnswers) :
            (mappedAnswers[m].source = "AI" /\ Len(mappedAnswers[m].options) > 0) =>
                IsAnOption(mappedAnswers[m])
    /\ \A o \in 1..Len(observations) :
            /\ \E k \in AnsweredCalls : observations[o].answer = aiResults[k].answer[1]
            /\ Len(observations[o].answer.options) > 0 => IsAnOption(observations[o].answer)
    /\ Len(observations) <= Cardinality(AnsweredCalls)
    /\ qpc = "done" =>
            \A q \in Questions :
                Cardinality({m \in 1..Len(mappedAnswers) :
                                /\ mappedAnswers[m].source = "AI"
                                /\ mappedAnswers[m].selector = q.selector})
                    = Cardinality({k \in AnsweredCalls : unmappedForAI[k] = q})

\* C14 witness: the oracle answered a question with options by a text no option
\* matches, and another by a text that only the matcher turns into an option
\* ("Male" into "Man"); the call has returned with the second answer only.
C14_Witness ==
    /\ qpc = "done"
    /\ \E k \in 1..Len(aiResults) : aiResults[k] = Null("no option")
    /\ Cardinality(AnsweredCalls) = 1
    /\ \E m \in 1..Len(mappedAnswers) :
            /\ mappedAnswers[m].source = "AI"
            /\ mappedAnswers[m].answer = "Man"
            /\ mappedAnswers[m].confidence = DefaultConfidence
    /\ Len(observations) = 1

\* The Pattern Store holds a pattern that matches the question's text (equal, or
\* a word overlap of 70% or more, as searchPatterns measures it) with a variant
\* that is one of the question's options.
KnowsVariantFor(q) ==
    \E k \in 1..Len(learnedPatterns) :
        /\ patternMatches(toLowerCase(q.questionText),
                          toLowerCase(learnedPatterns[k].questionPattern))
        /\ \E m \in 1..Len(learnedPatterns[k].answerMappings) :
           \E v \in 1..Len(learnedPatterns[k].answerMappings[m].variants) :
           \E o \in 1..Len(q.options) :
                q.options[o] = learnedPatterns[k].answerMappings[m].variants[v]

\* C15 (as claimed): a question that phase 1 has passed, that the canonical tier
\* does not answer and for which the store holds a learned variant among its
\* options, is emitted with source learned and is not queued for the AI oracle.
C15_LearnedResolvesLater ==
    qpc \in {"phase1", "ai"} =>
        \A i \in 1..Len(questions) :
            (/\ i < qi
             /\ tryCanonical(questions[i], profile[1]) = NoResult
             /\ KnowsVariantFor(questions[i])) =>
                /\ \E m \in 1..Len(mappedAnswers) :
                        /\ mappedAnswers[m].selector = questions[i].selector
                        /\ mappedAnswers[m].source = "learned"
                /\ \A k \in 1..Len(unmappedForAI) : unmappedForAI[k] # questions[i]

(***************************************************************************)
(* The PatternStorage under concurrent callers (part_003)                  *)
(*                                                                         *)
(* Every content script (one per frame and tab) holds its own              *)
(* PatternStorage over the one chrome.storage.local.  A call reads the     *)
(* whole list at its first await and writes the whole list back at its     *)
(* last; other callers run between the two.                                *)
(***************************************************************************)

\* The callers of the storage and the calls each makes.
Callers == {1, 2}
MaxCalls == 2

\* The patterns handed to addPattern: two answers learned for "Gender", one
\* pattern of the same question in another letter case, and a new intent
\* learned from a text question, which has no answer mappings.
GenderQuestion == CHOOSE q \in Questions : q.questionText = "Gender"
WhyQuestion == CHOOSE q \in Questions : q.questionText = "Why us?"

StorePatterns ==
    {patternFor(GenderQuestion, [answer |-> "Woman", confidence |-> 90], "eeo.gender",
                FALSE, "Woman"),
     patternFor(GenderQuestion, [answer |-> "Man", confidence |-> 0], "eeo.gender",
                FALSE, "Man"),
     [patternFor(GenderQuestion, [answer |-> "Female", confidence |-> 0], "eeo.gender",
                 FALSE, "Woman") EXCEPT !.questionPattern = "Gender"],
     patternFor(WhyQuestion, [answer |-> "Growth", confidence |-> 90], "custom.why",
                TRUE, "Growth")}

\* The question texts handed to findPattern.
StoreQueries == {"Gender", "Why us?"}

\* part_003 l.102-110: a pattern that was pushed gets an id of its own.
withId(before, after, id) ==
    IF Len(after) > Len(before) THEN [after EXCEPT ![Len(after)].id = id] ELSE after

\* part_003 addPattern l.72: the call starts and getLocalPatterns resolves.
AddPatternRead(c) ==
    /\ callers[c].pc = "idle"
    /\ callers[c].calls < MaxCalls
    /\ \E pattern \in StorePatterns :
         callers' = [callers EXCEPT ![c] =
                        [pc |-> "addPattern", patterns |-> learnedPatterns,
                         arg |-> <<pattern>>, patternId |-> 0, calls |-> @.calls + 1]]
    /\ UNCHANGED <<fillVars, restVars, resolveVars, nextId>>

\* part_003 addPattern l.75-114: the list read is merged into or pushed onto,
\* and saveLocalPatterns writes it back.
AddPatternWrite(c) ==
    /\ callers[c].pc = "addPattern"
    /\ \E saved \in {saveLocalPatterns(profile,
                        withId(callers[c].patterns,
                               addPattern(callers[c].patterns, callers[c].arg[1]),
                               nextId))} :
            /\ profile' = saved.profile
            /\ learnedPatterns' = saved.learnedPatterns
    /\ nextId' = nextId + 1
    /\ callers' = [callers EXCEPT ![c] = [Idle EXCEPT !.calls = callers[c].calls]]
    /\ UNCHANGED <<fillVars, restVars, questions, qpc, qi, mappedAnswers, unmappedForAI,
                   aiResults, aiAnswers, li, observations>>

\* The caller after searchPatterns: null is returned (l.131), or incrementUsage
\* is called with the id of the match (l.127).
afterSearch(caller, patterns, k) ==
    IF k = 0 THEN [Idle EXCEPT !.calls = caller.calls + 1]
    ELSE [pc |-> "found", patterns |-> <<>>, arg |-> <<>>, patternId |-> patterns[k].id,
          calls |-> caller.calls + 1]

\* part_003 findPattern l.122-126: getLocalPatterns resolves and the list is searched.
FindPatternRead(c) ==
    /\ callers[c].pc = "idle"
    /\ callers[c].calls < MaxCalls
    /\ \E questionText \in StoreQueries :
         callers' = [callers EXCEPT ![c] =
                        afterSearch(@, learnedPatterns,
                                    searchPatterns(learnedPatterns, questionText))]
    /\ UNCHANGED <<fillVars, restVars, resolveVars, nextId>>

\* The caller after incrementUsage has looked its pattern up: without it
\* nothing is written (l.188).
afterLookup(caller, patterns, k) ==
    IF k = 0 THEN [Idle EXCEPT !.calls = caller.calls]
    ELSE [caller EXCEPT !.pc = "incrementUsage", !.patterns = patterns]

idPosition(patterns, patternId) ==
    LET HasId(p) == p.id = patternId IN FirstIndex(patterns, HasId)

\* part_003 incrementUsage l.185-186: getLocalPatterns resolves a second time.
IncrementUsageRead(c) ==
    /\ callers[c].pc = "found"
    /\ callers' = [callers EXCEPT ![c] =
                        afterLookup(@, learnedPatterns,
                                    idPosition(learnedPatterns, @.patternId))]
    /\ UNCHANGED <<fillVars, restVars, resolveVars, nextId>>

\* part_003 incrementUsage l.189-191: the list read is written back with the
\* usage counted.
IncrementUsageWrite(c) ==
    /\ callers[c].pc = "incrementUsage"
    /\ \E saved \in {saveLocalPatterns(profile,
                        incrementUsage(callers[c].patterns, callers[c].patternId))} :
            /\ profile' = saved.profile
            /\ learnedPatterns' = saved.learnedPatterns
    /\ callers' = [callers EXCEPT ![c] = [Idle EXCEPT !.calls = callers[c].calls]]
    /\ UNCHANGED <<fillVars, restVars, questions, qpc, qi, mappedAnswers, unmappedForAI,
                   aiResults, aiAnswers, li, observations, nextId>>

NextStore ==
    \E c \in Callers :
        \/ AddPatternRead(c)
        \/ AddPatternWrite(c)
        \/ FindPatternRead(c)
        \/ IncrementUsageRead(c)
        \/ IncrementUsageWrite(c)

\* A fresh install: the store is empty and no scan is under way.
InitSpecStore ==
    /\ InitFill({}, Elems, {}, {})
    /\ InitResolve({<<>>}, {<<>>}, {<<>>})
    /\ InitStore(Callers)
    /\ InitScan({<<>>})
    /\ InitTrusted({<<>>})
    /\ InitOthers

SpecStore == InitSpecStore /\ [][NextStore]_vars

(***************************************************************************)
(* Properties of the Pattern Store                                         *)
(***************************************************************************)

\* C16: after any sequence of addPattern calls the store holds at most one
\* LearnedPattern per pair of intent and question pattern, the question
\* patterns compared case-insensitively.
C16_OnePatternPerPair ==
    \A j, k \in 1..Len(learnedPatterns) :
        (/\ learnedPatterns[j].intent = learnedPatterns[k].intent
         /\ toLowerCase(learnedPatterns[j].questionPattern)
                = toLowerCase(learnedPatterns[k].questionPattern)) => j = k

\* Two patterns are stored, and the one for "gender" has taken in the variant
\* of a pattern written "Gender".
C16_Witness ==
    /\ Len(learnedPatterns) = 2
    /\ \E k \in 1..Len(learnedPatterns) :
        /\ learnedPatterns[k].questionPattern = "gender"
        /\ \E m \in 1..Len(learnedPatterns[k].answerMappings) :
                learnedPatterns[k].answerMappings[m].variants = <<"Woman", "Female">>

\* The mapping m of a stored pattern is held by the pattern p with every variant.
HoldsMapping(p, m) ==
    \E n \in 1..Len(p.answerMappings) :
        /\ p.answerMappings[n].canonicalValue = m.canonicalValue
        /\ \A v \in 1..Len(m.variants) :
            \E w \in 1..Len(p.answerMappings[n].variants) :
                p.answerMappings[n].variants[w] = m.variants[v]

\* Every pattern of the store before is in the store after, with every variant.
Kept(before, after) ==
    \A k \in 1..Len(before) :
        \E j \in 1..Len(after) :
            /\ after[j].intent = before[k].intent
            /\ toLowerCase(after[j].questionPattern) = toLowerCase(before[k].questionPattern)
            /\ \A m \in 1..Len(before[k].answerMappings) :
                    HoldsMapping(after[j], before[k].answerMappings[m])

\* C17: across any interleaving of addPattern and findPattern/incrementUsage
\* calls, a variant once stored for a pattern is never removed and a stored
\* pattern never disappears.
C17_StoreOnlyGrows == [][Kept(learnedPatterns, learnedPatterns')]_vars


\* What a stored pattern holds, apart from its id, its usage count and the
\* order of its mappings and variants.
PatternContent(p) ==
    [intent |-> p.intent, questionPattern |-> p.questionPattern,
     confidence |-> p.confidence,
     mappings |-> {[canonicalValue |-> p.answerMappings[m].canonicalValue,
                    variants |-> {p.answerMappings[m].variants[v] :
                                    v \in 1..Len(p.answerMappings[m].variants)}] :
                   m \in 1..Len(p.answerMappings)}]

StoreContent(patterns) == {PatternContent(patterns[k]) : k \in 1..Len(patterns)}

\* The store after two observations have been learned, one after the other.
learnBoth(patterns, q1, a1, q2, a2, prof) ==
    learn(learn(patterns, q1, a1, prof), q2, a2, prof)

\* Two stores hold the same patterns, and give every question the same answer.
SameStore(s, t) ==
    /\ StoreContent(s) = StoreContent(t)
    /\ \A q \in Questions, p \in Profiles : tryMapping(q, p, s) = tryMapping(q, p, t)

\* C18: learning two AI observations in either order leaves the Pattern Store
\* in the same state (patterns, answer mappings, variants, confidence), so
\* that a later resolution returns the same answers.  Checked where the
\* learning loop starts on two answers.
C18_LearningOrderIrrelevant ==
    (qpc = "learning" /\ li = 1 /\ Len(unmappedForAI) = 2 /\ Len(aiAnswers) = 2) =>
        SameStore(learnBoth(learnedPatterns, unmappedForAI[1], aiAnswers[1],
                            unmappedForAI[2], aiAnswers[2], profile[1]),
                  learnBoth(learnedPatterns, unmappedForAI[2], aiAnswers[2],
                            unmappedForAI[1], aiAnswers[1], profile[1]))

\* C19: an answer emitted with source LEARNED for a question about a protected
\* EEO/compliance intent is derived from the profile's value for that intent;
\* a variant that came from an AI answer is never emitted for such a question
\* when the profile holds no value for the intent.
C19_LearnedFromProfile ==
    \A k \in 1..Len(mappedAnswers) :
        (/\ mappedAnswers[k].source = "learned"
         /\ IsProtected(mappedAnswers[k].questionText)) =>
            getValueFromProfile(profile[1],
                                keywordIntent(mappedAnswers[k].questionText)) # ""

\* C20: processQuestions, its learning step included, never writes the stored
\* CanonicalProfile: no step of a resolution run changes the profile in storage.
C20_ProfileNotWritten == [][profile' = profile]_vars

\* A run under a stored profile has ended after it wrote the Pattern Store in
\* its learning step.
C20_Witness ==
    /\ qpc = "done"
    /\ profile # <<>>
    /\ observations # <<>>
    /\ \E k \in 1..Len(learnedPatterns) :
            learnedPatterns[k].questionPattern =
                normalizeQuestion(observations[1].question.questionText)

(***************************************************************************)
(* The Form Scanner (formScanner.ts FormScanner, part_002 dropdownScanner) *)
(***************************************************************************)

\* The fields of a page and the option elements of a dropdown.
MaxScanFields == 3
MaxOptions == 2

\* The textContent of the option elements a dropdown can hold.
OptionTexts == {"", "--", "Select one", "US", " US "}

OptionLists == UNION {[1..n -> OptionTexts] : n \in 0..MaxOptions}

\* The visible fields findAllFormFields can return: text inputs with an
\* aria-label (one of them blank), a native select and a combobox widget.
InputFields ==
    {[tag |-> "input", ariaLabel |-> l, optionTexts |-> <<>>] :
        l \in {"Gender", " gender ", "Email", ""}}

DropdownFields(optionTexts) ==
    {[tag |-> "select", ariaLabel |-> "Country", optionTexts |-> optionTexts],
     [tag |-> "combobox", ariaLabel |-> "Gender", optionTexts |-> optionTexts]}

FieldLists(optionTexts) ==
    UNION {[1..n -> InputFields \cup DropdownFields(optionTexts)] : n \in 0..MaxScanFields}

\* formScanner.ts detectFieldType l.155-207
detectFieldType(field) ==
    CASE field.tag = "combobox" -> "dropdown_custom"
      [] field.tag = "select" -> "select"
      [] OTHER -> "text"

\* formScanner.ts getQuestionText l.213-218: the aria-label, trimmed (the
\* fields of the model carry no other label).
getQuestionText(field) == trim(field.ariaLabel)

\* part_002 extractNativeOptions l.382-394
RECURSIVE extractNativeOptions(_)
extractNativeOptions(optionTexts) ==
    IF optionTexts = <<>> THEN <<>>
    ELSE IF /\ trim(optionTexts[1]) # ""
            /\ trim(optionTexts[1]) # "--"
            /\ toLowerCase(trim(optionTexts[1])) # "select"
         THEN <<trim(optionTexts[1])>> \o extractNativeOptions(Tail(optionTexts))
         ELSE extractNativeOptions(Tail(optionTexts))

\* part_002 extractCustomOptions l.446-451: the texts of the menu's option
\* elements, pushed unless blank or already held.
RECURSIVE menuOptions(_, _)
menuOptions(options, optionTexts) ==
    IF optionTexts = <<>> THEN options
    ELSE menuOptions(IF /\ trim(optionTexts[1]) # ""
                        /\ \A k \in 1..Len(options) : options[k] # trim(optionTexts[1])
                     THEN Append(options, trim(optionTexts[1])) ELSE options,
                     Tail(optionTexts))

\* part_002 extractCustomOptions l.400-463: nothing is extracted from a menu
\* that did not open.
extractCustomOptions(optionTexts, opened) ==
    IF opened THEN menuOptions(<<>>, optionTexts) ELSE <<>>

\* part_002 extractDropdownOptions l.468-482
extractDropdownOptions(field, opened) ==
    IF field.tag = "select" THEN extractNativeOptions(field.optionTexts)
    ELSE extractCustomOptions(field.optionTexts, opened)

\* formScanner.ts processField l.115-150: <<>> for null.
scannedQuestion(field, fieldType, questionText, opened, i) ==
    IF questionText = "" THEN <<>>
    ELSE <<[questionText |-> questionText, fieldType |-> fieldType,
            optionsDefined |-> fieldType \in {"dropdown_custom", "select"},
            options |-> IF fieldType \in {"dropdown_custom", "select"}
                        THEN extractDropdownOptions(field, opened) ELSE <<>>,
            required |-> FALSE, selector |-> i]>>

processField(field, opened, i) ==
    scannedQuestion(field, detectFieldType(field), getQuestionText(field), opened, i)

\* A scan that returns every question it built.
deduplicateQuestions_None(qs) == qs

\* formScanner.ts deduplicateQuestions l.331-342
RECURSIVE filterSeen(_, _)
filterSeen(qs, seen) ==
    IF qs = <<>> THEN <<>>
    ELSE IF trim(toLowerCase(qs[1].questionText)) \in seen
         THEN filterSeen(Tail(qs), seen)
         ELSE <<qs[1]>> \o
              filterSeen(Tail(qs),
                         seen \cup {trim(toLowerCase(qs[1].questionText))})

deduplicateQuestions(qs) == filterSeen(qs, {})

\* formScanner.ts scan l.44-52: one round of the loop over the fields; whether
\* the menu of a custom dropdown opens is up to the page.
ProcessField ==
    /\ scan.pc = "loop"
    /\ scan.i <= Len(scan.fields)
    /\ \E opened \in BOOLEAN :
         scan' = [scan EXCEPT
                    !.questions = @ \o processField(scan.fields[scan.i], opened, scan.i),
                    !.i = @ + 1]
    /\ UNCHANGED <<fillVars, resolveVars, storeVars, debugger, trusted, otherVars>>

\* formScanner.ts scan l.55-63: the questions are deduplicated and returned.
Deduplicate ==
    /\ scan.pc = "loop"
    /\ scan.i > Len(scan.fields)
    /\ scan' = [scan EXCEPT !.result = deduplicateQuestions(scan.questions),
                            !.pc = "done"]
    /\ UNCHANGED <<fillVars, resolveVars, storeVars, debugger, trusted, otherVars>>

NextScan ==
    \/ ProcessField
    \/ Deduplicate

\* One call of scan() on a page whose dropdowns hold the same option elements.
InitSpecScan ==
    /\ InitFill({}, Elems, {}, {})
    /\ InitResolve({<<>>}, {<<>>}, {<<>>})
    /\ InitStore({})
    /\ InitScan(UNION {FieldLists(optionTexts) : optionTexts \in OptionLists})
    /\ InitTrusted({<<>>})
    /\ InitOthers

SpecScan == InitSpecScan /\ [][NextScan]_vars

(***************************************************************************)
(* Properties of the Form Scanner                                          *)
(***************************************************************************)

\* The key deduplication compares.
TextKey(q) == trim(toLowerCase(q.questionText))

\* The positions of the questions that are the first with their text.
FirstOfText(qs) ==
    {i \in 1..Len(qs) :
        \A j \in 1..(i - 1) : TextKey(qs[j]) # TextKey(qs[i])}

\* The n-th smallest member of a set of positions.
NthOf(positions, n) ==
    CHOOSE i \in positions : Cardinality({j \in positions : j <= i}) = n

\* C21: the list scan() returns holds no two questions whose texts are equal
\* after lower-casing and trimming; of several fields with the same text the
\* first in scan order is kept, and the kept questions keep their order.
C21_FirstOfEachTextKept ==
    scan.pc = "done" =>
        /\ \A m, n \in 1..Len(scan.result) :
                TextKey(scan.result[m]) = TextKey(scan.result[n]) => m = n
        /\ Len(scan.result) = Cardinality(FirstOfText(scan.questions))
        /\ \A n \in 1..Len(scan.result) :
                scan.result[n] = scan.questions[NthOf(FirstOfText(scan.questions), n)]

\* Of three questions the third repeats the text of the first in another
\* letter case, and the first two are returned in their order.
C21_Witness ==
    /\ scan.pc = "done"
    /\ Len(scan.questions) = 3
    /\ scan.questions[1].questionText # scan.questions[3].questionText
    /\ TextKey(scan.questions[1]) = TextKey(scan.questions[3])
    /\ scan.result = <<scan.questions[1], scan.questions[2]>>

\* A blank or placeholder entry: '', '--', 'Select', 'Select one', ...
IsPlaceholder(text) ==
    \/ trim(text) = ""
    \/ trim(text) = "--"
    \/ startsWith(toLowerCase(trim(text)), "select")

\* An options list without duplicates, blanks and placeholders.
CleanOptions(options) ==
    /\ \A m, n \in 1..Len(options) : options[m] = options[n] => m = n
    /\ \A n \in 1..Len(options) : ~IsPlaceholder(options[n])

\* C22: every options list extractDropdownOptions produces, for a native
\* select as for a custom widget, has no duplicate entries and no blank or
\* placeholder entry.
C22_OptionsClean ==
    \A n \in 1..Len(scan.questions) :
        scan.questions[n].optionsDefined => CleanOptions(scan.questions[n].options)


(***************************************************************************)
(* Further properties of the Resolution Engine                             *)
(***************************************************************************)

\* The pattern is one for the question the answer was produced for.
PatternOfAnswer(p, answer) ==
    /\ p.questionPattern = normalizeQuestion(answer.questionText)
    /\ \A m \in 1..Len(p.answerMappings) :
            p.answerMappings[m].contextOptions = answer.options

\* C23: each AI answer is learned against the question it was produced for:
\* the LearnedPattern written for an answer carries the normalized text and
\* the options of that answer's own question, also when an earlier question of
\* the batch got no answer.
C23_LearnedForOwnQuestion ==
    \A o \in 1..Len(observations) :
        \A p \in {learnFromAIResponse(observations[o].question, observations[o].answer,
                                      profile[1])} :
            p # <<>> => PatternOfAnswer(p[1], observations[o].answer)

\* The first of the three tier results with confidence >= 0.85; the fuzzy tier
\* counts for a question with options.
firstConfident(canonicalResult, learned, fuzzyResult, question) ==
    IF canonicalResult.confidence >= ConfidenceThreshold THEN canonicalResult
    ELSE IF learned.confidence >= ConfidenceThreshold THEN learned
    ELSE IF /\ question.optionsDefined /\ Len(question.options) > 0
            /\ fuzzyResult.confidence >= ConfidenceThreshold
         THEN fuzzyResult
         ELSE NoResult

\* The question was emitted with the result, or queued for the AI without one.
UsedOrQueued(question, best) ==
    IF best # NoResult
    THEN \E m \in 1..Len(mappedAnswers) :
            /\ mappedAnswers[m].selector = question.selector
            /\ mappedAnswers[m].answer = best.answer
            /\ mappedAnswers[m].source = best.source
    ELSE \E k \in 1..Len(unmappedForAI) : unmappedForAI[k] = question

\* C24: for each question the tiers are tried in the order canonical, learned,
\* fuzzy and the first result with confidence >= 0.85 is used; a learned
\* result below 0.85 does not stop the fuzzy tier, and a question is queued
\* for the AI only if no tier gives a result with confidence >= 0.85.
C24_FirstConfidentTier ==
    qpc \in {"phase1", "ai"} =>
        \A i \in 1..Len(questions) :
            i < qi =>
                UsedOrQueued(questions[i],
                             firstConfident(tryCanonical(questions[i], profile[1]),
                                            tryLearned(questions[i], profile[1],
                                                       learnedPatterns),
                                            tryFuzzy(questions[i], profile[1]),
                                            questions[i]))

\* The positions of the stored patterns whose question pattern is the
\* normalized text of the question.
PatternsOf(questionText) ==
    {k \in 1..Len(learnedPatterns) :
        learnedPatterns[k].questionPattern = normalizeQuestion(questionText)}

\* C25: findPattern(Q) finds the stored pattern whose questionPattern is the
\* normalized text of Q: once the learned tier has been asked about a question
\* whose normalized text is stored, the usage of that pattern has been counted.
C25_StoredTextIsFound ==
    qpc \in {"phase1", "ai"} =>
        \A i \in 1..Len(questions) :
            (i < qi /\ tryCanonical(questions[i], profile[1]) = NoResult) =>
                \A k \in PatternsOf(questions[i].questionText) :
                    learnedPatterns[k].usageCount > 0

\* The store holds, under the pattern's intent and question pattern, every
\* variant of every answer mapping of the pattern.
HoldsPattern(patterns, p) ==
    \E k \in 1..Len(patterns) :
        /\ patterns[k].intent = p.intent
        /\ toLowerCase(patterns[k].questionPattern) = toLowerCase(p.questionPattern)
        /\ \A m \in 1..Len(p.answerMappings) :
                HoldsMapping(patterns[k], p.answerMappings[m])

\* C27: after addPattern(p) has completed, every variant of every answer
\* mapping of p is in the store under p's intent and question pattern, in a
\* mapping with the same canonicalValue, also when the entry that existed for
\* the pair had no answerMappings.
C27_AddedVariantsStored ==
    \A o \in 1..Len(observations) :
        \A p \in {learnFromAIResponse(observations[o].question, observations[o].answer,
                                      profile[1])} :
            p # <<>> => HoldsPattern(learnedPatterns, p[1])

\* C29: requestAIAnswers issues the AI request of every queued question before
\* it awaits any response (when the batch starts, every queued question has a
\* call and every call is pending), and no learning write to the Pattern Store
\* happens until all calls of the batch have completed, answered or not.
C29_BatchThenLearn ==
    /\ [][(qpc = "phase1" /\ qpc' = "ai") =>
            /\ Len(aiResults') = Len(unmappedForAI)
            /\ \A k \in 1..Len(aiResults') : aiResults'[k] = Pending]_vars
    /\ [][qpc = "ai" => learnedPatterns' = learnedPatterns]_vars
    /\ [](qpc = "ai" => observations = <<>>)
    /\ []((qpc = "learning" \/ observations # <<>>) =>
            /\ Len(aiResults) = Len(unmappedForAI)
            /\ \A k \in 1..Len(aiResults) : aiResults[k] # Pending)

\* A batch of two calls, one answered and one not, has been waited for and
\* the answer has been learned.
C29_Witness ==
    /\ qpc = "learning"
    /\ Len(aiResults) = 2
    /\ \E j, k \in 1..2 : aiResults[j].state = "null" /\ aiResults[k].state = "answered"
    /\ observations # <<>>
    /\ learnedPatterns # <<>>

(***************************************************************************)
(* The background worker's message listener (part_000 l.222-302)           *)
(***************************************************************************)

\* `message.action`: "" (undefined) for a message without that property.
actionOf(message) ==
    IF "action" \in DOMAIN message THEN message.action ELSE ""

\* part_000 l.222-302: the handler the listener hands a message to, "none"
\* when it returns false without calling one.
onMessage(message) ==
    CASE actionOf(message) = "checkProfile" -> "hasCompleteProfile"
      [] actionOf(message) = "getProfile" -> "loadProfile"
      [] actionOf(message) = "openOnboarding" -> "openOnboarding"
      [] actionOf(message) = "trustedClick" -> "handleTrustedClick"
      [] actionOf(message) = "trustedType" -> "handleTrustedType"
      [] actionOf(message) = "runSelenium" -> "runSelenium"
      [] actionOf(message) = "askAI" -> "handleAIRequest"
      [] actionOf(message) = "scanApplication" -> "handleScanApplication"
      [] actionOf(message) = "mapAnswers" -> "handleMapAnswers"
      [] actionOf(message) = "START_AUTOFILL" -> "handleStartAutofill"
      [] actionOf(message) = "FIELD_FILL_FAILED" -> "handleFieldFillFailed"
      [] OTHER -> "none"

\* C26: every failure report the fill executor sends is dispatched by the
\* background worker's listener to handleFieldFillFailed: of the reports sent,
\* each one the listener has received was handed to that handler.
C26_ReportsAreNoted ==
    \A k \in 1..Len(reports) :
        reports[k] \in delivered => onMessage(reports[k]) = "handleFieldFillFailed"

\* C28: a resolved field whose fieldType is SELECT_NATIVE (or the scanner's
\* 'select') is mapped to FieldType.SELECT_NATIVE by mapSeleniumTypeToFieldType
\* and filled with the native-select strategy, not with the custom-dropdown
\* interaction.
C28_NativeSelectStrategy ==
    \A r \in live :
        (/\ pc[r] \in {"filling", "reporting", "sleeping"}
         /\ rf[r].elem # NoMatch
         /\ toLowerCase(rf[r].fieldType) \in {"select_native", "select"}) =>
            /\ mapSeleniumTypeToFieldType(rf[r].fieldType) = "SELECT_NATIVE"
            /\ rf[r].strategy = "selectNativeOption"

(***************************************************************************)
(* Trusted input through the debugger (part_000 l.427-492)                 *)
(***************************************************************************)

\* The requests the worker receives and the longest text of a trustedType.
Requests == {1, 2}
MaxChars == 2

\* A request as the listener hands it to its handler (l.242-249): the tab of
\* the sender (0 when sender.tab is undefined) and the input events to
\* dispatch, two for a click and two for each character of a text.
TrustedRequests ==
    {[action |-> "trustedClick", tabId |-> t, events |-> 2, pc |-> "start"] :
        t \in Tabs \cup {0}} \cup
    {[action |-> "trustedType", tabId |-> t, events |-> 2 * n, pc |-> "start"] :
        t \in Tabs \cup {0}, n \in 1..MaxChars}

\* chrome.debugger.attach by the extension: it fails on a tab the extension is
\* attached to already ("Another debugger is already attached").
afterAttach(request, session) ==
    IF session = 0 THEN [request EXCEPT !.pc = "sending"]
    ELSE [request EXCEPT !.pc = "catch"]

\* part_000 l.431-435 / l.466-470: without a tab id the handler returns an
\* error; otherwise it attaches.
Attach(q) ==
    /\ trusted[q].pc = "start"
    /\ IF trusted[q].tabId = 0
       THEN /\ trusted' = [trusted EXCEPT ![q].pc = "failed"]
            /\ UNCHANGED debugger
       ELSE /\ trusted' = [trusted EXCEPT
                            ![q] = afterAttach(@, debugger[trusted[q].tabId])]
            /\ debugger' = [debugger EXCEPT
                            ![trusted[q].tabId] = IF @ = 0 THEN q ELSE @]
    /\ UNCHANGED <<fillVars, resolveVars, storeVars, scan, otherVars>>

\* chrome.debugger.sendCommand: it fails when the extension is not attached to
\* the tab ("Debugger is not attached").
afterCommand(request, session) ==
    IF session # 0 THEN [request EXCEPT !.events = @ - 1]
    ELSE [request EXCEPT !.pc = "catch"]

\* part_000 l.437-449 / l.471-480: one Input.dispatch... command.
SendCommand(q) ==
    /\ trusted[q].pc = "sending"
    /\ trusted[q].events > 0
    /\ trusted' = [trusted EXCEPT ![q] = afterCommand(@, debugger[trusted[q].tabId])]
    /\ UNCHANGED <<fillVars, resolveVars, storeVars, scan, debugger, otherVars>>

\* chrome.debugger.detach by the extension: it ends the extension's session on
\* the tab, whichever handler attached it, and fails when there is none.
detached(sessions, tabId) == [sessions EXCEPT ![tabId] = 0]

\* part_000 l.450-451 / l.481-482: the events are dispatched; detach and
\* return success.
Detach(q) ==
    /\ trusted[q].pc = "sending"
    /\ trusted[q].events = 0
    /\ trusted' = [trusted EXCEPT
                    ![q].pc = IF debugger[trusted[q].tabId] # 0 THEN "done" ELSE "catch"]
    /\ debugger' = detached(debugger, trusted[q].tabId)
    /\ UNCHANGED <<fillVars, resolveVars, storeVars, scan, otherVars>>

\* part_000 l.453-460 / l.484-491: the catch block detaches, ignores the error
\* of that, and returns the failure.
CatchDetach(q) ==
    /\ trusted[q].pc = "catch"
    /\ trusted' = [trusted EXCEPT ![q].pc = "failed"]
    /\ debugger' = detached(debugger, trusted[q].tabId)
    /\ UNCHANGED <<fillVars, resolveVars, storeVars, scan, otherVars>>

NextTrusted ==
    \E q \in Requests :
        \/ Attach(q)
        \/ SendCommand(q)
        \/ Detach(q)
        \/ CatchDetach(q)

\* Two trusted-input requests have reached the worker.
InitSpecTrusted ==
    /\ InitFill({}, Elems, {}, {})
    /\ InitResolve({<<>>}, {<<>>}, {<<>>})
    /\ InitStore({})
    /\ InitScan({<<>>})
    /\ InitTrusted([Requests -> TrustedRequests])
    /\ InitOthers

SpecTrusted == InitSpecTrusted /\ [][NextTrusted]_vars

\* C30: when two trusted-input requests for the same tab overlap, the second
\* request's failure to attach never detaches the session the first attached
\* while the first is still dispatching its input events: a session whose
\* holder is dispatching ends only by the holder's own detach.
C30_SessionKeptWhileDispatching ==
    [][\A t \in Tabs :
        (/\ debugger[t] # 0
         /\ trusted[debugger[t]].pc = "sending"
         /\ debugger'[t] # debugger[t]) => trusted'[debugger[t]].pc = "done"]_vars
(***************************************************************************)
(* The scan cache of the background worker (part_000 l.365-405)            *)
(***************************************************************************)

\* part_000 l.369: 5 * 60 * 1000 ms, in minutes.
SCAN_CACHE_DURATION == 5

\* The last reading of the clock the model follows.
MaxNow == 7

\* The scanApplication requests the worker receives.
ScanRequests == {1, 2}

\* What the scanner service can answer to POST /api/selenium/scan: a 2xx
\* response whose body carries data, a response that is not ok, or no response
\* at all (fetch or response.json() throws).
ScanData == {"d1", "d2"}
ScanResponses ==
    {[ok |-> TRUE, thrown |-> FALSE, data |-> d] : d \in ScanData} \cup
    {[ok |-> FALSE, thrown |-> FALSE, data |-> ""],
     [ok |-> FALSE, thrown |-> TRUE, data |-> ""]}

\* A request as the listener hands it to handleScanApplication.
NewScans == {[url |-> u, pc |-> "start", result |-> <<>>] : u \in Urls}

\* part_000 l.377: cached && (Date.now() - cached.timestamp) < SCAN_CACHE_DURATION
isFresh_Never(cached, t) == FALSE

isFresh(cached, t) ==
    /\ cached # <<>>
    /\ t - cached[1].timestamp < SCAN_CACHE_DURATION

\* part_000 l.398: scanCache.set(url, { data: data.data, timestamp: Date.now() })
cacheSet(cache, url, data, t) ==
    [cache EXCEPT ![url] = <<[data |-> data, timestamp |-> t]>>]

\* part_000 l.374-390: the cache is read; a fresh entry is returned, otherwise
\* the scan request is sent and the handler waits for the response.
HandleScanApplication(r) ==
    /\ scans[r].pc = "start"
    /\ IF isFresh(scanCache[scans[r].url], now)
       THEN scans' = [scans EXCEPT
                        ![r].pc = "done",
                        ![r].result = <<[success |-> TRUE,
                                         data |-> scanCache[scans[r].url][1].data]>>]
       ELSE scans' = [scans EXCEPT ![r].pc = "fetching"]
    /\ UNCHANGED <<fillVars, resolveVars, storeVars, scan, debugger, trusted,
                   scanCache, now, typing, matching, dropdownVars, server>>

\* part_000 l.390-404: the response arrives. A response that is ok is cached
\* and returned; one that is not ok throws, and the catch block returns the
\* failure as it does for a thrown fetch.
ScanResponse(r) ==
    /\ scans[r].pc = "fetching"
    /\ \E response \in ScanResponses :
        IF response.ok
        THEN /\ scanCache' = cacheSet(scanCache, scans[r].url, response.data, now)
             /\ scans' = [scans EXCEPT
                            ![r].pc = "done",
                            ![r].result = <<[success |-> TRUE, data |-> response.data]>>]
        ELSE /\ scans' = [scans EXCEPT
                            ![r].pc = "done",
                            ![r].result = <<[success |-> FALSE, data |-> ""]>>]
             /\ UNCHANGED scanCache
    /\ UNCHANGED <<fillVars, resolveVars, storeVars, scan, debugger, trusted, now,
                   typing, matching, dropdownVars, server>>

\* A minute passes.
Tick ==
    /\ now < MaxNow
    /\ now' = now + 1
    /\ UNCHANGED <<fillVars, resolveVars, storeVars, scan, debugger, trusted,
                   scanCache, scans, typing, matching, dropdownVars, server>>

NextCache ==
    \/ \E r \in DOMAIN scans : HandleScanApplication(r)
    \/ \E r \in DOMAIN scans : ScanResponse(r)
    \/ Tick

\* Two scanApplication requests have reached the worker.
InitSpecCache ==
    /\ InitFill({}, Elems, {}, {})
    /\ InitResolve({<<>>}, {<<>>}, {<<>>})
    /\ InitStore({})
    /\ InitScan({<<>>})
    /\ InitTrusted({<<>>})
    /\ InitCache([ScanRequests -> NewScans])
    /\ InitTyping({}, {}, {})
    /\ InitMatching({})
    /\ InitDropdown({}, {})
    /\ InitServer

SpecCache == InitSpecCache /\ [][NextCache]_vars

\* The cache holds an entry for the URL that is younger than 5 minutes.
HasYoungEntry(url) ==
    /\ scanCache[url] # <<>>
    /\ now - scanCache[url][1].timestamp < 5

\* C31: handleScanApplication sends the remote scan request for a URL only
\* when the cache holds no entry for it younger than 5 minutes and returns the
\* cached data otherwise, and a failed scan leaves the cache as it was.
C31_ScanOnlyWithoutYoungEntry ==
    [][\A r \in ScanRequests :
        /\ (scans[r].pc = "start" /\ scans'[r].pc = "fetching")
                => ~HasYoungEntry(scans[r].url)
        /\ (scans[r].pc = "start" /\ HasYoungEntry(scans[r].url) /\ scans'[r] # scans[r])
                => /\ scans'[r].pc = "done"
                   /\ scans'[r].result =
                        <<[success |-> TRUE, data |-> scanCache[scans[r].url][1].data]>>
        /\ (scans[r].pc = "fetching" /\ scans'[r].pc = "done"
                /\ ~scans'[r].result[1].success)
                => scanCache' = scanCache]_vars

\* One request was answered from the cache, and another one's scan failed
\* while the cache held an entry.
C31_Witness ==
    \E r, s \in ScanRequests :
        /\ scans[r].pc = "done" /\ scans[r].result[1].success
        /\ scans[s].pc = "done" /\ ~scans[s].result[1].success
        /\ scanCache[scans[s].url] # <<>>

(***************************************************************************)
(* typeLikeHuman (autofillActions.ts l.12-50) over the trusted-input       *)
(* handler of the worker                                                   *)
(***************************************************************************)

\* The values typed and the texts the input can hold before the call.
TypedValues == {"a", "ab"}
OldTexts == {"", "x"}

\* The trustedType message before typeLikeHuman has sent it.
Unsent == [action |-> "trustedType", tabId |-> 0, events |-> 0, pc |-> "unsent"]

\* A trustedClick of another script, which the worker receives as well.
RivalClicks ==
    {[action |-> "trustedClick", tabId |-> t, events |-> 2, pc |-> "start"] : t \in Tabs}

\* part_000 l.246-247: handleTrustedType(sender.tab?.id, message.text) with two
\* key events for each character of the text (l.471-480).
trustedTypeRequest(tabId, text) ==
    [action |-> "trustedType", tabId |-> tabId, events |-> 2 * Len(text), pc |-> "start"]

\* part_000 l.467, l.482, l.490: what handleTrustedType returns, by the name
\* typeLikeHuman's record keeps for it.
trustedTypeResponse(request) ==
    IF request.pc = "done" THEN "success" ELSE "failure"

\* autofillActions.ts l.29: response?.success
reportsSuccess_Always(response) == TRUE

reportsSuccess(response) == response = "success"

\* The keyDown events of the request the tab has received.
keyDowns(request, text) == (2 * Len(text) - request.events + 1) \div 2

\* The text the focused input holds after the tab received the key events: a
\* page takes every character, or only the first ones when the focus moves.
textsAfter(request, text) ==
    {SubSeq(text, 1, n) : n \in 0..keyDowns(request, text)}

\* autofillActions.ts l.16-28: focus, clear the value, send the trustedType
\* message and wait for its response.
TypeLikeHuman ==
    /\ typing.pc = "start"
    /\ typing' = [typing EXCEPT !.pc = "awaiting", !.element = ""]
    /\ trusted' = [trusted EXCEPT ![1] = trustedTypeRequest(typing.tab, typing.value)]
    /\ UNCHANGED <<fillVars, resolveVars, storeVars, scan, debugger, cacheVars, matching,
                   dropdownVars, server>>

\* autofillActions.ts l.29 and l.45: the response has arrived. When it reports
\* success the call returns the read-back; otherwise the simulation starts.
afterResponse(call, response, element) ==
    IF reportsSuccess(response)
    THEN [call EXCEPT !.pc = "done", !.response = response, !.element = element,
                      !.result = <<verifyInputValue(element, call.value)>>]
    ELSE [call EXCEPT !.pc = "typing", !.response = response, !.element = element]

TrustedResponse ==
    /\ typing.pc = "awaiting"
    /\ trusted[1].pc \in {"done", "failed"}
    /\ \E element \in textsAfter(trusted[1], typing.value) :
        typing' = afterResponse(typing, trustedTypeResponse(trusted[1]), element)
    /\ UNCHANGED <<fillVars, resolveVars, storeVars, scan, debugger, trusted, cacheVars,
                   matching, dropdownVars, server>>

\* autofillActions.ts l.30-32: chrome.runtime.sendMessage rejects (no worker,
\* or the extension context is gone); the error is logged and the simulation
\* starts.
MessageThrows ==
    /\ typing.pc = "awaiting"
    /\ \E element \in textsAfter(trusted[1], typing.value) :
        typing' = [typing EXCEPT !.pc = "typing", !.response = "thrown",
                                 !.element = element]
    /\ UNCHANGED <<fillVars, resolveVars, storeVars, scan, debugger, trusted, cacheVars,
                   matching, dropdownVars, server>>

\* autofillActions.ts l.35-39: one character of the simulation.
TypeChar ==
    /\ typing.pc = "typing"
    /\ typing.simulated < Len(typing.value)
    /\ typing' = [typing EXCEPT
                    !.element = @ \o SubSeq(typing.value, typing.simulated + 1,
                                            typing.simulated + 1),
                    !.simulated = @ + 1]
    /\ UNCHANGED <<fillVars, resolveVars, storeVars, scan, debugger, trusted, cacheVars,
                   matching, dropdownVars, server>>

\* autofillActions.ts l.41-45: change event, blur, and the read-back.
TypeReturn ==
    /\ typing.pc = "typing"
    /\ typing.simulated = Len(typing.value)
    /\ typing' = [typing EXCEPT
                    !.pc = "done",
                    !.result = <<verifyInputValue(typing.element, typing.value)>>]
    /\ UNCHANGED <<fillVars, resolveVars, storeVars, scan, debugger, trusted, cacheVars,
                   matching, dropdownVars, server>>

NextTyping ==
    \/ TypeLikeHuman
    \/ TrustedResponse
    \/ MessageThrows
    \/ TypeChar
    \/ TypeReturn
    \/ NextTrusted

\* One call of typeLikeHuman, while the worker has a trustedClick of another
\* script to handle.
InitSpecTyping ==
    /\ InitFill({}, Elems, {}, {})
    /\ InitResolve({<<>>}, {<<>>}, {<<>>})
    /\ InitStore({})
    /\ InitScan({<<>>})
    /\ InitTrusted({[q \in Requests |-> IF q = 1 THEN Unsent ELSE rival] :
                        rival \in RivalClicks})
    /\ InitCache({<<>>})
    /\ InitTyping(TypedValues, OldTexts, Tabs)
    /\ InitMatching({})
    /\ InitDropdown({}, {})
    /\ InitServer

SpecTyping == InitSpecTyping /\ [][NextTyping]_vars

\* C32: typeLikeHuman simulates the typing, character by character, if and
\* only if the trustedType message threw or its response did not report
\* success; after a response that reports success nothing is simulated and
\* the result is whether the element's value equals the intended value.
C32_SimulatesIffTrustedFailed ==
    /\ typing.simulated > 0 => typing.response \in {"thrown", "failure"}
    /\ (typing.pc = "done" /\ typing.response \in {"thrown", "failure"})
            => typing.simulated = Len(typing.value)
    /\ (typing.pc = "done" /\ typing.response = "success")
            => /\ typing.simulated = 0
               /\ typing.result = <<typing.element = typing.value>>

\* A call ended after the worker reported a failed trusted typing and two
\* characters were simulated.
C32_Witness ==
    /\ typing.pc = "done"
    /\ typing.response = "failure"
    /\ typing.simulated = 2

(***************************************************************************)
(* The option matchers of the QuestionMapper (formScanner.ts l.1003-1120)  *)
(***************************************************************************)

\* The option lists of a field: up to MaxOptions of the texts, in any order.
OptionListsOf(texts) == UNION {[1..n -> texts] : n \in 0..MaxOptions}

\* Option texts of yes/no questions and of enumerated questions, and the
\* profile values matched against the latter.
YesNoTexts == {"Yes", "No", "I do", "I don't", "TRUE", "Not sure", "Maybe"}
EnumTexts == {"Man", "Woman", "Non-binary", "Female", "male ", "United States +1",
              "India +91"}
EnumValues == {"Male", "Female", "Man", "USA", "India", "us", "Other"}

\* The calls of booleanToYesNo (by tryCanonical, l.599-975) and of
\* matchInOptions (by tryCanonical and tryFuzzy) that are run.
MatcherCalls ==
    {[NoMatching EXCEPT !.pc = "called", !.fn = "booleanToYesNo", !.value = v,
                        !.options = o] :
        v \in {"true", "false"}, o \in OptionListsOf(YesNoTexts)} \cup
    {[NoMatching EXCEPT !.pc = "called", !.fn = "matchInOptions", !.value = v,
                        !.options = o] :
        v \in EnumValues, o \in OptionListsOf(EnumTexts)} \cup
    {[NoMatching EXCEPT !.pc = "called", !.fn = "matchInOptions", !.value = "Male",
                        !.options = <<"Man", "Woman", "Non-binary">>]}

\* formScanner.ts l.1006-1032
BooleanToYesNo ==
    /\ matching.pc = "called"
    /\ matching.fn = "booleanToYesNo"
    /\ matching' = [matching EXCEPT
                        !.pc = "returned",
                        !.result = <<booleanToYesNo(matching.value, matching.options)>>]
    /\ UNCHANGED <<fillVars, resolveVars, storeVars, scan, debugger, trusted,
                   cacheVars, typing, dropdownVars, server>>

\* formScanner.ts l.1037-1120, with the default confidence 1.0
MatchInOptions ==
    /\ matching.pc = "called"
    /\ matching.fn = "matchInOptions"
    /\ matching' = [matching EXCEPT
                        !.pc = "returned",
                        !.result = <<matchInOptions(matching.value, matching.options,
                                                    100)>>]
    /\ UNCHANGED <<fillVars, resolveVars, storeVars, scan, debugger, trusted,
                   cacheVars, typing, dropdownVars, server>>

NextMatch ==
    \/ BooleanToYesNo
    \/ MatchInOptions

InitSpecMatch ==
    /\ InitFill({}, Elems, {}, {})
    /\ InitResolve({<<>>}, {<<>>}, {<<>>})
    /\ InitStore({})
    /\ InitScan({<<>>})
    /\ InitTrusted({<<>>})
    /\ InitCache({<<>>})
    /\ InitTyping({}, {}, {})
    /\ InitMatching(MatcherCalls)
    /\ InitDropdown({}, {})
    /\ InitServer

SpecMatch == InitSpecMatch /\ [][NextMatch]_vars

\* An option that says yes, or no, to booleanToYesNo.
YesLike(opt) ==
    \/ includes(toLowerCase(opt), "yes") \/ includes(toLowerCase(opt), "true")
    \/ toLowerCase(opt) \in {"y", "i do"}

NoLike(opt) ==
    \/ includes(toLowerCase(opt), "no") \/ includes(toLowerCase(opt), "false")
    \/ includes(toLowerCase(opt), "prefer not")
    \/ toLowerCase(opt) \in {"n", "i do not", "i don't"}

\* The positions of the options that say what the boolean says.
LikePositions(value, options) ==
    {k \in 1..Len(options) :
        IF value = "true" THEN YesLike(options[k]) ELSE NoLike(options[k])}

Synonyms == {<<"male", "man">>, <<"female", "woman">>, <<"man", "male">>,
             <<"woman", "female">>}
Abbreviations == {<<"usa", "united states">>, <<"us", "united states">>,
                  <<"uk", "united kingdom">>, <<"uae", "united arab emirates">>}

Related(tier, value, opt) ==
    LET v == trim(toLowerCase(value))
        o == toLowerCase(opt)
    IN  CASE tier = 1 -> trim(o) = v
          [] tier = 2 -> <<v, trim(o)>> \in Synonyms
          [] tier = 3 -> includes(o, v) \/ includes(v, o)
          [] tier = 4 -> \/ startsWith(o, v)
                         \/ \E k \in 1..Len(split(v)) :
                                Len(split(v)[k]) >= 3 /\ startsWith(o, split(v)[k])
          [] tier = 5 -> \E pair \in Abbreviations : pair[1] = v /\ includes(o, pair[2])

\* The positions of the options a tier relates to the value.
TierHits(tier, value, options) ==
    {k \in 1..Len(options) : Related(tier, value, options[k])}

\* C34: matchInOptions tries exact match, synonym table, substring
\* containment, word prefix and abbreviation table in that order and returns
\* the first option of the first tier that has a hit ("Male" with Man, Woman,
\* Non-binary gives "Man"); with no hit in any tier it returns no match, so
\* that it never returns an option no tier relates to the value.
C34_FirstTierWithHit ==
    (matching.pc = "returned" /\ matching.fn = "matchInOptions"
        /\ Len(matching.options) > 0) =>
        LET tiers == {t \in 1..5 : TierHits(t, matching.value, matching.options) # {}}
        IN  IF tiers = {}
            THEN matching.result = <<NoResult>>
            ELSE \E t \in tiers :
                    /\ \A u \in tiers : t <= u
                    /\ \E k \in TierHits(t, matching.value, matching.options) :
                        /\ \A j \in TierHits(t, matching.value, matching.options) : k <= j
                        /\ matching.result[1].answer = matching.options[k]
                        /\ matching.result[1] # NoResult

\* The example of the claim: the synonym tier answers "Man" for "Male".
C34_Witness ==
    /\ matching.pc = "returned"
    /\ matching.fn = "matchInOptions"
    /\ matching.value = "Male"
    /\ matching.options = <<"Man", "Woman", "Non-binary">>
    /\ matching.result[1].answer = "Man"

\* The question at the phase 1 loop is one only the fuzzy tier answers.
AnsweredByFuzzyOnly(question) ==
    /\ tryCanonical(question, profile[1]) = NoResult
    /\ tryLearned(question, profile[1], learnedPatterns) = NoResult
    /\ tryFuzzy(question, profile[1]) # NoResult

\* C35: an answer produced by the fuzzy tier (personal.gender matched against
\* the options) is emitted with source "fuzzy" and confidence 0.9.
C35_FuzzyAnswerIsFuzzy ==
    [][(/\ qpc = "phase1"
        /\ qi <= Len(questions)
        /\ qi' = qi + 1
        /\ AnsweredByFuzzyOnly(questions[qi]))
            => /\ Len(mappedAnswers') = Len(mappedAnswers) + 1
               /\ mappedAnswers'[Len(mappedAnswers')].source = "fuzzy"
               /\ mappedAnswers'[Len(mappedAnswers')].confidence = 90]_vars


\* How many entries of a list of questions or answers belong to the field
\* with the selector.
EntriesFor(list, selector) ==
    Cardinality({k \in 1..Len(list) : list[k].selector = selector})

\* The answers of tiers 1-3 among the answers emitted.
TierAnswers == SelectSeq(mappedAnswers, LAMBDA a : a.source # "AI")

\* C36: every input question of processQuestions takes exactly one path:
\* it is answered by tiers 1-3 and never sent to the AI oracle, or it is sent
\* to the AI oracle exactly once; the output holds at most one answer for
\* each input question.
C36_OnePathPerQuestion ==
    /\ \A q \in Questions :
        /\ EntriesFor(TierAnswers, q.selector) + EntriesFor(unmappedForAI, q.selector)
                = EntriesFor(SubSeq(questions, 1, qi - 1), q.selector)
        /\ EntriesFor(mappedAnswers, q.selector) <= EntriesFor(questions, q.selector)
    /\ Len(aiResults) = IF qpc \in {"idle", "phase1", "failed"} THEN 0
                        ELSE Len(unmappedForAI)

\* A scan of two questions has ended: one was answered by a tier, the other
\* by the AI oracle.
C36_Witness ==
    /\ qpc = "done"
    /\ Len(questions) = 2
    /\ Len(TierAnswers) = 1
    /\ Len(unmappedForAI) = 1
    /\ Len(mappedAnswers) = 2

(***************************************************************************)
(* Opening a custom dropdown to read its options (part_002 l.244-463)      *)
(***************************************************************************)

\* part_002 l.425: waitForDropdownMenu(2000), in seconds.
WaitTimeout == 2

\* How long the model lets the clock run during a wait.
MaxElapsed == 3

\* part_002 l.329, l.338, l.347, l.359: what openDropdownWithKeyboard
\* dispatches, in the order of its statements.
Attempts == <<"Space", "Enter", "ArrowDown", "click">>

\* part_002 l.228-233: the selectors of getDropdownMenu, in its order.
MenuSelectors == <<".select__menu", "[role=listbox]", "[role=menu]", ".dropdown-menu">>

\* The popup elements a page can show: two that the selectors find and one
\* that they do not.
PageElements == {"[role=listbox]", ".dropdown-menu", ".popover"}

\* The widgets: the attempts a widget reacts to, the element it shows as its
\* menu, whether it holds an input, and the texts of its option elements.
Widgets ==
    {[opensOn |-> s, shows |-> e, hasInput |-> h, optionTexts |-> <<"US", "", " US ">>] :
        s \in SUBSET {"Space", "ArrowDown", "click"}, e \in {"[role=listbox]", ".popover"},
        h \in BOOLEAN}

\* part_002 l.226-240: the first selector that finds an element, "" for null.
getDropdownMenu(doc) ==
    LET found == {k \in 1..Len(MenuSelectors) : MenuSelectors[k] \in doc}
    IN  IF found = {} THEN "" ELSE MenuSelectors[Least(found)]

\* A test that never sees a menu.
isMenuOpen_Never(doc) == FALSE

\* part_002 l.304-320: the selectors of getDropdownMenu and
\* '[aria-expanded="true"] + [role="listbox"]', which finds nothing that
\* '[role="listbox"]' does not find.
isMenuOpen(doc) == \E k \in 1..Len(MenuSelectors) : MenuSelectors[k] \in doc

\* A timer that never fires.
timedOut_Never(elapsed) == FALSE

\* part_002 l.266-269: the timer of waitForDropdownMenu is due.
timedOut(elapsed) == elapsed >= WaitTimeout

\* The page after the widget has received an attempt.
reaction(widget, attempt, doc) ==
    IF attempt \in widget.opensOn THEN doc \cup {widget.shows} ELSE doc

\* part_002 l.370-377: closeDropdown sends Escape, on which the widget removes
\* its menu.
closeDropdown(widget, doc) == doc \ {widget.shows}

\* part_002 l.404-416: without an input the call returns no options; with one
\* it focuses it and sleeps.
FindInput ==
    /\ dropdown.pc = "start"
    /\ dropdown' = IF dropdown.widget.hasInput
                   THEN [dropdown EXCEPT !.pc = "key"]
                   ELSE [dropdown EXCEPT !.pc = "done"]
    /\ UNCHANGED <<fillVars, resolveVars, storeVars, scan, debugger, trusted,
                   cacheVars, typing, matching, document, server>>

\* part_002 l.329, l.338, l.347, l.357-360: the next attempt is dispatched.
DispatchAttempt ==
    /\ dropdown.pc = "key"
    /\ dropdown' = [dropdown EXCEPT !.pc = "check",
                                    !.attempts = Append(@, Attempts[dropdown.attempt])]
    /\ document' = reaction(dropdown.widget, Attempts[dropdown.attempt], document)
    /\ UNCHANGED <<fillVars, resolveVars, storeVars, scan, debugger, trusted,
                   cacheVars, typing, matching, server>>

\* part_002 l.330-335 and the like: after the sleep isMenuOpen decides whether
\* the function returns true, goes on to the next attempt, or returns false
\* after the click.
afterCheck(call, doc) ==
    IF isMenuOpen(doc)
    THEN [call EXCEPT !.pc = "opened", !.opened = <<TRUE>>, !.checks = Append(@, doc)]
    ELSE IF call.attempt < Len(Attempts)
    THEN [call EXCEPT !.pc = "key", !.attempt = @ + 1, !.checks = Append(@, doc)]
    ELSE [call EXCEPT !.pc = "opened", !.opened = <<FALSE>>, !.checks = Append(@, doc)]

CheckMenu ==
    /\ dropdown.pc = "check"
    /\ dropdown' = afterCheck(dropdown, document)
    /\ UNCHANGED <<fillVars, resolveVars, storeVars, scan, debugger, trusted,
                   cacheVars, typing, matching, document, server>>

\* part_002 l.247-261: the executor of waitForDropdownMenu resolves at once
\* when a menu is there; otherwise it observes the body and sets the timer.
waitStarted(call, doc) ==
    IF getDropdownMenu(doc) # ""
    THEN [call EXCEPT !.pc = "waited", !.resolved = <<TRUE>>]
    ELSE [call EXCEPT !.pc = "wait", !.elapsed = 0]

\* part_002 l.419-425: a dropdown that did not open gives no options; for one
\* that did, the wait for the menu starts.
AwaitMenu ==
    /\ dropdown.pc = "opened"
    /\ dropdown' = IF dropdown.opened = <<TRUE>> THEN waitStarted(dropdown, document)
                   ELSE [dropdown EXCEPT !.pc = "done"]
    /\ UNCHANGED <<fillVars, resolveVars, storeVars, scan, debugger, trusted,
                   cacheVars, typing, matching, document, server>>

\* part_002 l.254-259: the MutationObserver's callback after a change of the
\* page.
observed(call, doc) ==
    IF call.pc = "wait" /\ getDropdownMenu(doc) # ""
    THEN [call EXCEPT !.pc = "waited", !.resolved = <<TRUE>>]
    ELSE call

\* The page adds or removes popup elements, whatever the call is doing.
PageChanges ==
    /\ dropdown.pc \notin {"idle", "done"}
    /\ \E doc \in SUBSET PageElements :
        /\ doc # document
        /\ document' = doc
        /\ dropdown' = observed(dropdown, doc)
    /\ UNCHANGED <<fillVars, resolveVars, storeVars, scan, debugger, trusted,
                   cacheVars, typing, matching, server>>

\* A second passes; a timer that is due fires before the clock goes on.
TimePasses ==
    /\ dropdown.pc = "wait"
    /\ ~timedOut(dropdown.elapsed)
    /\ dropdown.elapsed < MaxElapsed
    /\ dropdown' = [dropdown EXCEPT !.elapsed = @ + 1]
    /\ UNCHANGED <<fillVars, resolveVars, storeVars, scan, debugger, trusted,
                   cacheVars, typing, matching, document, server>>

\* part_002 l.266-269: the timer fires, the observer is disconnected and the
\* promise resolves to whether a menu is there now.
WaitTimedOut ==
    /\ dropdown.pc = "wait"
    /\ timedOut(dropdown.elapsed)
    /\ dropdown' = [dropdown EXCEPT !.pc = "waited",
                                    !.resolved = <<getDropdownMenu(document) # "">>]
    /\ UNCHANGED <<fillVars, resolveVars, storeVars, scan, debugger, trusted,
                   cacheVars, typing, matching, document, server>>

\* part_002 l.426-433: without a menu the dropdown is closed and no options
\* are returned; with one the call sleeps while the options render.
AfterWait ==
    /\ dropdown.pc = "waited"
    /\ IF dropdown.resolved = <<TRUE>>
       THEN /\ dropdown' = [dropdown EXCEPT !.pc = "render"]
            /\ UNCHANGED document
       ELSE /\ dropdown' = [dropdown EXCEPT !.pc = "done"]
            /\ document' = closeDropdown(dropdown.widget, document)
    /\ UNCHANGED <<fillVars, resolveVars, storeVars, scan, debugger, trusted,
                   cacheVars, typing, matching, server>>

\* part_002 l.443-451: the option elements of the menu found: the widget's
\* own, or those of another menu of the page.
optionTextsOf(widget, menu) ==
    IF menu = "" THEN <<>>
    ELSE IF menu = widget.shows THEN widget.optionTexts ELSE <<"Other">>

\* part_002 l.435-462: the menu is looked up again, its options are read and
\* the dropdown is closed.
ReadMenu ==
    /\ dropdown.pc = "render"
    /\ dropdown' = [dropdown EXCEPT
                        !.pc = "done",
                        !.options = menuOptions(<<>>,
                                        optionTextsOf(dropdown.widget,
                                                      getDropdownMenu(document)))]
    /\ document' = closeDropdown(dropdown.widget, document)
    /\ UNCHANGED <<fillVars, resolveVars, storeVars, scan, debugger, trusted,
                   cacheVars, typing, matching, server>>

NextDropdown ==
    \/ FindInput
    \/ DispatchAttempt
    \/ CheckMenu
    \/ AwaitMenu
    \/ PageChanges
    \/ TimePasses
    \/ WaitTimedOut
    \/ AfterWait
    \/ ReadMenu

\* One call of extractCustomOptions on a widget, on a page that may show a
\* menu of its own.
InitSpecDropdown ==
    /\ InitFill({}, Elems, {}, {})
    /\ InitResolve({<<>>}, {<<>>}, {<<>>})
    /\ InitStore({})
    /\ InitScan({<<>>})
    /\ InitTrusted({<<>>})
    /\ InitCache({<<>>})
    /\ InitTyping({}, {}, {})
    /\ InitMatching({})
    /\ InitDropdown(Widgets, {{}, {".dropdown-menu"}})
    /\ InitServer

SpecDropdown == InitSpecDropdown /\ [][NextDropdown]_vars

\* A menu container is among the popup elements.
MenuPresent(doc) ==
    doc \cap {".select__menu", "[role=listbox]", "[role=menu]", ".dropdown-menu"} # {}

\* C37: openDropdownWithKeyboard dispatches Space, Enter, ArrowDown and the
\* click on the control in that order, looks for a menu container after each,
\* stops at the first attempt after which one is present, and dispatches
\* nothing after a success; it reports failure only after all four.
C37_AttemptsInOrderUntilOpen ==
    /\ dropdown.attempts = SubSeq(<<"Space", "Enter", "ArrowDown", "click">>,
                                  1, Len(dropdown.attempts))
    /\ Len(dropdown.checks) \in {Len(dropdown.attempts) - 1, Len(dropdown.attempts)}
    /\ \A k \in 1..Len(dropdown.checks) :
            MenuPresent(dropdown.checks[k])
                => (k = Len(dropdown.checks) /\ k = Len(dropdown.attempts)
                    /\ dropdown.opened = <<TRUE>>)
    /\ dropdown.opened = <<TRUE>>
            => MenuPresent(dropdown.checks[Len(dropdown.checks)])
    /\ dropdown.opened = <<FALSE>> => Len(dropdown.checks) = 4

\* The widget did not react to Space and Enter and opened on ArrowDown: three
\* attempts were made and the click was not.
C37_Witness ==
    /\ dropdown.opened = <<TRUE>>
    /\ dropdown.attempts = <<"Space", "Enter", "ArrowDown">>
    /\ dropdown.pc = "done"

\* How far a call of extractCustomOptions has come.
DropdownStage ==
    CASE dropdown.pc = "start" -> 0 [] dropdown.pc \in {"key", "check"} -> 1
      [] dropdown.pc = "opened" -> 2 [] dropdown.pc = "wait" -> 3
      [] dropdown.pc = "waited" -> 4 [] dropdown.pc = "render" -> 5 [] OTHER -> 6

DropdownProgress ==
    DropdownStage * 100 + Len(dropdown.attempts) + Len(dropdown.checks) + dropdown.elapsed

\* C38: waitForDropdownMenu resolves to a boolean when its timeout has
\* elapsed at the latest, whatever the page does, so that extractCustomOptions
\* ends and returns a list of options, possibly empty: the wait is never
\* pending after the timeout, every step of the call brings it further along
\* a bounded course, and what it returns is a list of texts.
C38_WaitResolvesCallReturns ==
    /\ [](dropdown.pc = "wait" => dropdown.elapsed <= 2)
    /\ [](dropdown.resolved \in {<<>>, <<TRUE>>, <<FALSE>>})
    /\ [](dropdown.pc \in {"waited", "render"} => dropdown.resolved # <<>>)
    /\ [][dropdown' # dropdown => DropdownProgress' > DropdownProgress]_vars
    /\ [](DropdownProgress <= 608 + 2)
    /\ [](dropdown.pc = "done" =>
            \A k \in 1..Len(dropdown.options) : dropdown.options[k] \in {"US", "Other"})

\* The menu the widget shows is none the selectors find, another menu was seen
\* by the check and went away: the wait ran into its timeout, resolved to
\* false, and the call returned no options.
C38_Witness ==
    /\ dropdown.pc = "done"
    /\ dropdown.elapsed = 2
    /\ dropdown.resolved = <<FALSE>>
    /\ dropdown.options = <<>>

(***************************************************************************)
(* The pattern-exchange server (part_004 l.414-572) beside the local       *)
(* Pattern Store                                                           *)
(***************************************************************************)

\* The uploads the model follows.
MaxUploads == 4

\* part_004 l.414-444
SHAREABLE_INTENTS ==
    {"eeo.gender", "eeo.hispanic", "eeo.veteran", "eeo.disability", "eeo.race",
     "eeo.lgbtq", "workAuth.sponsorship", "workAuth.usAuthorized",
     "workAuth.driverLicense", "workAuth.visaType", "location.country",
     "location.state", "application.hasRelatives", "application.previouslyApplied",
     "application.ageVerification", "application.willingToRelocate",
     "application.willingToTravel", "application.workArrangement",
     "personal.firstName", "personal.lastName", "personal.email", "personal.phone",
     "personal.city", "education.degree", "education.school", "education.major",
     "experience.company", "experience.title"}

\* A server that takes every intent.
isShareableIntent_Any(intent) == TRUE

\* part_004 l.446-448
isShareableIntent(intent) == intent \in SHAREABLE_INTENTS

\* The patterns uploaded: those handed to addPattern, and the first of them
\* without answer mappings.
UploadPatterns ==
    StorePatterns \cup
    {[p EXCEPT !.answerMappingsDefined = FALSE, !.answerMappings = <<>>] :
        p \in {q \in StorePatterns : q.questionPattern = "gender"
                                     /\ q.answerMappings[1].canonicalValue = "Woman"}}

\* A merge that pushes every variant it is given.
uploadVariants_All(variants, new) == variants \o new

\* part_004 l.529-533: the variants the entry does not hold yet are pushed.
RECURSIVE uploadVariants(_, _)
uploadVariants(variants, new) ==
    IF new = <<>> THEN variants
    ELSE uploadVariants(IF \E k \in 1..Len(variants) : variants[k] = new[1]
                        THEN variants ELSE Append(variants, new[1]),
                        Tail(new))

\* part_004 l.523-537: each mapping of the upload goes into the entry's
\* mapping of the same canonical value, or is pushed.
mappingAt(mappings, canonicalValue) ==
    Least({k \in 1..Len(mappings) : mappings[k].canonicalValue = canonicalValue})

RECURSIVE uploadMappings(_, _)
uploadMappings(existing, new) ==
    IF new = <<>> THEN existing
    ELSE uploadMappings(
            IF mappingAt(existing, new[1].canonicalValue) # 0
            THEN [existing EXCEPT
                    ![mappingAt(existing, new[1].canonicalValue)].variants =
                        uploadVariants(@, new[1].variants)]
            ELSE Append(existing, new[1]),
            Tail(new))

\* part_004 l.513-516: findIndex by intent and lower-cased question pattern, 0
\* for -1.
existingIndex(patterns, pattern) ==
    Least({k \in 1..Len(patterns) :
            /\ patterns[k].intent = pattern.intent
            /\ toLowerCase(patterns[k].questionPattern)
                    = toLowerCase(pattern.questionPattern)})

\* part_004 l.518-552: the patterns file after the upload; the timestamps are
\* left out.
uploaded(patterns, pattern, k) ==
    IF k # 0
    THEN [patterns EXCEPT
            ![k].answerMappings =
                IF pattern.answerMappingsDefined /\ patterns[k].answerMappingsDefined
                THEN uploadMappings(@, pattern.answerMappings) ELSE @,
            ![k].usageCount = @ + 1]
    ELSE Append(patterns,
            [id |-> Len(patterns) + 1, usageCount |-> 1,
             questionPattern |-> pattern.questionPattern, intent |-> pattern.intent,
             canonicalKey |-> pattern.canonicalKey, fieldType |-> pattern.fieldType,
             confidence |-> pattern.confidence, source |-> pattern.source,
             isCustomIntent |-> pattern.isCustomIntent,
             answerMappingsDefined |-> pattern.answerMappingsDefined,
             answerMappings |-> pattern.answerMappings])

\* part_004 l.498-572: POST /api/patterns/upload, 403 for an intent that is
\* not shareable.
upload(srv, pattern) ==
    IF isShareableIntent(pattern.intent)
    THEN [srv EXCEPT !.patterns = uploaded(@, pattern, existingIndex(@, pattern)),
                     !.requests = @ + 1, !.request = <<pattern>>, !.status = 200]
    ELSE [srv EXCEPT !.requests = @ + 1, !.request = <<pattern>>, !.status = 403]

\* The local store next to the server: it is fed the pattern through
\* addPattern when the pattern's intent is shareable.
fedLocally(patterns, pattern) ==
    IF pattern.intent \in SHAREABLE_INTENTS THEN addPattern(patterns, pattern)
    ELSE patterns

\* One pattern is uploaded, and handed to the local store.
UploadPattern ==
    /\ server.requests < MaxUploads
    /\ \E pattern \in UploadPatterns :
        /\ server' = upload(server, pattern)
        /\ learnedPatterns' = fedLocally(learnedPatterns, pattern)
    /\ UNCHANGED <<fillVars, storeVars, scan, debugger, trusted, cacheVars, typing,
                   matching, dropdownVars,
                   profile, questions, qpc, qi, mappedAnswers, unmappedForAI,
                   aiResults, aiAnswers, li, observations>>

NextExchange == UploadPattern

\* An empty server and an empty local store.
InitSpecExchange ==
    /\ InitFill({}, Elems, {}, {})
    /\ InitResolve({<<>>}, {<<>>}, {<<>>})
    /\ InitStore({})
    /\ InitScan({<<>>})
    /\ InitTrusted({<<>>})
    /\ InitCache({<<>>})
    /\ InitTyping({}, {}, {})
    /\ InitMatching({})
    /\ InitDropdown({}, {})
    /\ InitServer

SpecExchange == InitSpecExchange /\ [][NextExchange]_vars

\* What the claim compares of a pattern: its key, its answer mappings and
\* their variants.
KeyAndMappings(p) ==
    [intent |-> p.intent, questionPattern |-> p.questionPattern,
     answerMappingsDefined |-> p.answerMappingsDefined,
     answerMappings |-> [m \in 1..Len(p.answerMappings) |->
                            [canonicalValue |-> p.answerMappings[m].canonicalValue,
                             variants |-> p.answerMappings[m].variants]]]

\* C39: after any sequence of uploads of patterns with shareable intents the
\* server's store and a local Pattern Store fed the same patterns through
\* addPattern hold the same (intent, questionPattern) keys with the same
\* answer mappings and variants; an upload whose intent is not on the
\* allow-list is rejected and leaves the server's store as it was.
C39_ServerMergesAsLocalStore ==
    /\ [](/\ Len(server.patterns) = Len(learnedPatterns)
          /\ \A k \in 1..Len(server.patterns) :
                KeyAndMappings(server.patterns[k]) = KeyAndMappings(learnedPatterns[k]))
    /\ [](server.request # <<>> =>
            (server.status = 403 <=> server.request[1].intent \notin SHAREABLE_INTENTS))
    /\ [][server'.status = 403 => server'.patterns = server.patterns]_vars

\* Three uploads: a pattern, one for the same key that brought a second
\* canonical value, and one that was rejected.
C39_Witness ==
    /\ server.requests = 3
    /\ Len(learnedPatterns) = 1
    /\ server.status = 403
    /\ Len(server.patterns) = 1
    /\ Len(server.patterns[1].answerMappings) = 2
====
